---- MODULE Spec2Model ----
(***************************************************************************)
(* A model of repotox: the relation analyzer                               *)
(* (getCollectionForeignKeyRelations, lib/utils.ts) and the cascading      *)
(* removal planner and executor (safeRemove and its confirm, lib/repo.ts), *)
(* running against a document store and the "__uuid" id registry.          *)
(***************************************************************************)
EXTENDS Integers, Sequences, FiniteSets, TLC

(***************************************************************************)
(* Constants of the program (src/constants.ts).                            *)
(***************************************************************************)
IGNORE_RELATION == "ignore-relation"
FOREIGN_KEY_BRAND_TYPE == "idFor"

(***************************************************************************)
(* Generic helpers on sequences.                                           *)
(***************************************************************************)
Range(s) == {s[i] : i \in DOMAIN s}

\* Array.prototype.filter with the predicate "element # x".
RECURSIVE Without(_, _)
Without(s, x) ==
  IF s = <<>> THEN <<>>
  ELSE IF Head(s) = x THEN Without(Tail(s), x)
       ELSE <<Head(s)>> \o Without(Tail(s), x)

\* The concatenation of a sequence of sequences.
RECURSIVE Flatten(_)
Flatten(ss) == IF ss = <<>> THEN <<>> ELSE Head(ss) \o Flatten(Tail(ss))

NoDuplicates(s) == \A i, j \in DOMAIN s : s[i] = s[j] => i = j

(***************************************************************************)
(* Schemas (schematox).  A property schema carries its type tag, the       *)
(* optional flag, a brand (the empty tuple when there is none), a          *)
(* description, and - for an array - the element schema, for a union - the *)
(* member schemas.                                                         *)
(***************************************************************************)
NoBrand == <<>>
Prim(type, brand) == [type |-> type, brand |-> brand]

Property(type, optional, brand, description, of) ==
  [type |-> type, optional |-> optional, brand |-> brand,
   description |-> description, of |-> of]

\* string().brand(FOREIGN_KEY_BRAND_TYPE, target)
IdFor(target) == <<FOREIGN_KEY_BRAND_TYPE, target>>
\* a required / optional foreign key string
Ref(target) == Property("string", FALSE, IdFor(target), "", <<>>)
OptRef(target) == Property("string", TRUE, IdFor(target), "", <<>>)
\* a required / optional array of foreign key strings
Refs(target) ==
  Property("array", FALSE, NoBrand, "", <<Prim("string", IdFor(target))>>)
OptRefs(target) ==
  Property("array", TRUE, NoBrand, "", <<Prim("string", IdFor(target))>>)
\* .description(IGNORE_RELATION)
Ignored(p) == [p EXCEPT !.description = IGNORE_RELATION]
\* a plain string field
Text == Property("string", TRUE, NoBrand, "", <<>>)

Field(key, p) == [key |-> key, p |-> p]
ObjectSchema(fields) == [type |-> "object", of |-> fields]
UnionSchema(variants) == [type |-> "union", of |-> variants]

\* `key in schemaOf`
HasKey(fields, key) == \E i \in DOMAIN fields : fields[i].key = key
\* schemaOf[key] (the last declaration wins in an object literal)
PropertyOf(fields, key) ==
  fields[CHOOSE i \in DOMAIN fields :
           /\ fields[i].key = key
           /\ \A j \in DOMAIN fields : fields[j].key = key => j <= i].p

(***************************************************************************)
(* The relation analyzer: getCollectionForeignKeyRelations.                *)
(***************************************************************************)
NoError == [kind |-> "none", args |-> <<>>]
Error(kind, args) == [kind |-> kind, args |-> args]

\* extractForeignKeyBrand: the brand's target, "" for undefined, or a throw.
extractForeignKeyBrand(schema) ==
  IF schema.brand # NoBrand /\ schema.brand[1] = FOREIGN_KEY_BRAND_TYPE
  THEN IF schema.type # "string"
       THEN [err |-> Error("invalidForeignKeyBrandTypeUsage", <<>>), brand |-> ""]
       ELSE [err |-> NoError, brand |-> schema.brand[2]]
  ELSE [err |-> NoError, brand |-> ""]

targetToOneKey(collectionName) == collectionName \o "Id"
targetToManyKey(collectionName) == collectionName \o "Ids"

DependencyKindPermissive(sourceKeyOptional, targetKeyOptional) ==
  IF sourceKeyOptional /\ targetKeyOptional THEN "primary-to-primary"
  ELSE IF sourceKeyOptional /\ ~targetKeyOptional THEN "primary-to-secondary"
  ELSE "secondary-to-primary"

\* The chain of if / else if over the optionality of the two endpoints.
DependencyKind(sourceKeyOptional, targetKeyOptional) ==
  IF sourceKeyOptional /\ targetKeyOptional THEN "primary-to-primary"
  ELSE IF sourceKeyOptional /\ ~targetKeyOptional THEN "primary-to-secondary"
  ELSE IF ~sourceKeyOptional /\ targetKeyOptional THEN "secondary-to-primary"
  ELSE "secondary-to-secondary"

CardinalityTypeBySource(sourceIsArray, targetKeyIsMany) ==
  IF sourceIsArray THEN "many-to-one" ELSE "one-to-many"

\* The cardinality literal of each of the four bilateral blocks: the block
\* is chosen by the source field's type and by the NAME of the reciprocal key.
CardinalityType(sourceIsArray, targetKeyIsMany) ==
  IF ~sourceIsArray /\ ~targetKeyIsMany THEN "one-to-one"
  ELSE IF ~sourceIsArray /\ targetKeyIsMany THEN "one-to-many"
  ELSE IF sourceIsArray /\ ~targetKeyIsMany THEN "many-to-one"
  ELSE "many-to-many"

\* The unilateral block of the scalar case, pasted into the array case
\* unchanged.
UnilateralRelationOfScalar(collectionName, sourceFieldKey, sourceKeyOptional, card, target) ==
  [dependencyKind |-> IF sourceKeyOptional THEN "primary-unilateral"
                      ELSE "secondary-unilateral",
   cardinalityType |-> "one",
   sourceCollectionName |-> collectionName,
   sourceCollectionFieldKey |-> sourceFieldKey,
   targetCollectionName |-> target]

UnilateralRelation(collectionName, sourceFieldKey, sourceKeyOptional, card, target) ==
  [dependencyKind |-> IF sourceKeyOptional THEN "primary-unilateral"
                      ELSE "secondary-unilateral",
   cardinalityType |-> card,
   sourceCollectionName |-> collectionName,
   sourceCollectionFieldKey |-> sourceFieldKey,
   targetCollectionName |-> target]

BilateralRelation(collectionName, sourceFieldKey, kind, card, target, targetKey) ==
  [dependencyKind |-> kind,
   cardinalityType |-> card,
   sourceCollectionName |-> collectionName,
   sourceCollectionFieldKey |-> sourceFieldKey,
   targetCollectionName |-> target,
   targetCollectionFieldKey |-> targetKey]

\* One bilateral block: the reciprocal key `targetKey` is in the target schema.
BilateralBlock(collectionName, sourceFieldKey, sourceKeyOptional, sourceIsArray, target, targetFields, targetKey, targetKeyIsMany) ==
  LET targetKeyOptional == PropertyOf(targetFields, targetKey).optional = TRUE
      kind == DependencyKind(sourceKeyOptional, targetKeyOptional)
  IN IF kind = "secondary-to-secondary"
     THEN [err |-> Error("secondaryToSecondaryRelationIsForbidden",
                         <<collectionName, sourceFieldKey>>),
           relations |-> <<>>]
     ELSE [err |-> NoError,
           relations |-> <<BilateralRelation(
              collectionName, sourceFieldKey, kind,
              CardinalityType(sourceIsArray, targetKeyIsMany), target, targetKey)>>]

\* The body shared by `case 'string'` and `case 'array'` once the brand of
\* the field (or of the array's element) is known.
ClassifyBranded(models, collectionName, sourceFieldKey, sourceKeyOptional, sourceIsArray, target) ==
  IF target \notin DOMAIN models \/ models[target].type # "object"
  THEN [err |-> NoError, relations |-> <<>>]
  ELSE LET targetFields == models[target].of
           oneKey == targetToOneKey(collectionName)
           manyKey == targetToManyKey(collectionName)
       IN IF ~HasKey(targetFields, oneKey) /\ ~HasKey(targetFields, manyKey)
          THEN [err |-> NoError,
                relations |-> <<UnilateralRelation(
                   collectionName, sourceFieldKey, sourceKeyOptional,
                   IF sourceIsArray THEN "many" ELSE "one", target)>>]
          ELSE IF HasKey(targetFields, oneKey)
          THEN BilateralBlock(collectionName, sourceFieldKey, sourceKeyOptional,
                              sourceIsArray, target, targetFields, oneKey, FALSE)
          ELSE BilateralBlock(collectionName, sourceFieldKey, sourceKeyOptional,
                              sourceIsArray, target, targetFields, manyKey, TRUE)

\* The members of a union (of a field, or of an array's element), in order:
\* the brands found before the first throw, and that throw.
RECURSIVE ExtractMembers(_)
ExtractMembers(members) ==
  IF members = <<>> THEN [err |-> NoError, brands |-> <<>>]
  ELSE LET x == extractForeignKeyBrand(Head(members))
       IN IF x.err # NoError THEN [err |-> x.err, brands |-> <<>>]
          ELSE LET rest == ExtractMembers(Tail(members))
               IN [err |-> rest.err,
                   brands |-> (IF x.brand # "" THEN <<x.brand>> ELSE <<>>)
                              \o rest.brands]

\* The switch over propertySchema.type: the relations pushed and the brands
\* pooled for the post-pass.
ClassifyProperty(models, collectionName, sourceFieldKey, p) ==
  LET sourceKeyOptional == p.optional = TRUE
  IN CASE p.type \in {"boolean", "literal", "number", "string"} ->
            LET x == extractForeignKeyBrand(p)
            IN IF x.err # NoError
               THEN [err |-> x.err, relations |-> <<>>, brandsPool |-> <<>>]
               ELSE IF x.brand = ""
               THEN [err |-> NoError, relations |-> <<>>, brandsPool |-> <<>>]
               ELSE LET c == ClassifyBranded(models, collectionName, sourceFieldKey,
                                             sourceKeyOptional, FALSE, x.brand)
                    IN [err |-> c.err, relations |-> c.relations,
                        brandsPool |-> <<x.brand>>]
       [] p.type = "array" ->
            IF p.of[1].type = "union"
            THEN LET m == ExtractMembers(p.of[1].of)
                 IN [err |-> m.err, relations |-> <<>>, brandsPool |-> m.brands]
            ELSE LET x == extractForeignKeyBrand(p.of[1])
                 IN IF x.err # NoError
                    THEN [err |-> x.err, relations |-> <<>>, brandsPool |-> <<>>]
                    ELSE IF x.brand = ""
                    THEN [err |-> NoError, relations |-> <<>>, brandsPool |-> <<>>]
                    ELSE LET c == ClassifyBranded(models, collectionName,
                                     sourceFieldKey, sourceKeyOptional, TRUE, x.brand)
                         IN [err |-> c.err, relations |-> c.relations,
                             brandsPool |-> <<x.brand>>]
       [] p.type = "union" ->
            LET m == ExtractMembers(p.of)
            IN [err |-> m.err,
                relations |-> [i \in DOMAIN m.brands |->
                   UnilateralRelation(collectionName, sourceFieldKey,
                                      sourceKeyOptional, "one", m.brands[i])],
                brandsPool |-> m.brands]
       [] OTHER ->
            [err |-> Error("invalidPropertyType", <<collectionName, sourceFieldKey>>),
             relations |-> <<>>, brandsPool |-> <<>>]

RelatedSchemaUnionEmpty(schema) == <<>>

\* relatedSchemaUnion: the field lists of the related model's variants.
RelatedSchemaUnion(schema) ==
  IF schema.type = "union" THEN schema.of ELSE <<schema.of>>

IgnoresRelationNever(p) == FALSE

\* propertySchema.description === IGNORE_RELATION
IgnoresRelation(p) == p.description = IGNORE_RELATION

CheckBrandIgnoringFirst(models, collectionName, sourceFieldKey, p, brand) ==
  IF IgnoresRelation(p) THEN NoError
  ELSE IF brand \notin DOMAIN models
  THEN Error("invalidBrandReferenceNoSuchModel", <<collectionName, sourceFieldKey>>)
  ELSE IF brand = collectionName
  THEN Error("forbiddenRecursiveRelation", <<collectionName, sourceFieldKey>>)
  ELSE IF \E i \in DOMAIN RelatedSchemaUnion(models[brand]) :
            LET relatedSchemaOf == RelatedSchemaUnion(models[brand])[i]
            IN /\ ~HasKey(relatedSchemaOf, targetToOneKey(collectionName))
               /\ ~HasKey(relatedSchemaOf, targetToManyKey(collectionName))
  THEN Error("noUserDefinedRelation", <<brand, collectionName, sourceFieldKey>>)
  ELSE NoError

\* The body of the post-pass for one brand of brandsPool: its throw, or
\* NoError when the loop goes on to the next brand.
CheckBrand(models, collectionName, sourceFieldKey, p, brand) ==
  IF brand \notin DOMAIN models
  THEN Error("invalidBrandReferenceNoSuchModel", <<collectionName, sourceFieldKey>>)
  ELSE IF IgnoresRelation(p) THEN NoError
  ELSE IF brand = collectionName
  THEN Error("forbiddenRecursiveRelation", <<collectionName, sourceFieldKey>>)
  ELSE IF \E i \in DOMAIN RelatedSchemaUnion(models[brand]) :
            LET relatedSchemaOf == RelatedSchemaUnion(models[brand])[i]
            IN /\ ~HasKey(relatedSchemaOf, targetToOneKey(collectionName))
               /\ ~HasKey(relatedSchemaOf, targetToManyKey(collectionName))
  THEN Error("noUserDefinedRelation", <<brand, collectionName, sourceFieldKey>>)
  ELSE NoError

\* The post-pass over brandsPool: the first throw, if any.
RECURSIVE CheckBrandsPool(_, _, _, _, _)
CheckBrandsPool(models, collectionName, sourceFieldKey, p, brandsPool) ==
  IF brandsPool = <<>> THEN NoError
  ELSE LET thrown == CheckBrand(models, collectionName, sourceFieldKey, p,
                                Head(brandsPool))
       IN IF thrown # NoError THEN thrown
          ELSE CheckBrandsPool(models, collectionName, sourceFieldKey, p,
                               Tail(brandsPool))

\* The loop over the fields of all variants, in declaration order.
RECURSIVE ScanFields(_, _, _)
ScanFields(models, collectionName, fields) ==
  IF fields = <<>> THEN [err |-> NoError, relations |-> <<>>]
  ELSE LET f == Head(fields)
       IN IF f.key = "id" THEN ScanFields(models, collectionName, Tail(fields))
          ELSE LET c == ClassifyProperty(models, collectionName, f.key, f.p)
                   post == CheckBrandsPool(models, collectionName, f.key, f.p,
                                           c.brandsPool)
               IN IF c.err # NoError THEN [err |-> c.err, relations |-> <<>>]
                  ELSE IF post # NoError THEN [err |-> post, relations |-> <<>>]
                  ELSE LET rest == ScanFields(models, collectionName, Tail(fields))
                       IN [err |-> rest.err,
                           relations |-> IF rest.err # NoError THEN <<>>
                                         ELSE c.relations \o rest.relations]

\* schemaUnion: the variants of a collection schema.
SchemaUnion(schema) == IF schema.type = "union" THEN schema.of ELSE <<schema.of>>

MissingIdOfFirstVariant(schemaUnion) == ~HasKey(schemaUnion[1], "id")

\* `of.id === undefined`, for the object schema or for a variant of the union.
MissingId(schemaUnion) ==
  \E i \in DOMAIN schemaUnion : ~HasKey(schemaUnion[i], "id")

getCollectionForeignKeyRelations(models, collectionName) ==
  LET schemaUnion == SchemaUnion(models[collectionName])
      allFields == Flatten(schemaUnion)
  IN IF MissingId(schemaUnion)
     THEN [err |-> Error("noIdField", <<collectionName>>),
           relations |-> <<>>, schemaKeys |-> {}]
     ELSE LET scan == ScanFields(models, collectionName, allFields)
          IN [err |-> scan.err,
              relations |-> scan.relations,
              schemaKeys |-> IF scan.err # NoError THEN {}
                             ELSE {allFields[i].key : i \in DOMAIN allFields} \ {"id"}]

(***************************************************************************)
(* The schema sets the repository is initialised with.                     *)
(***************************************************************************)
Id(c) == Field("id", Ref(c))

\* The schema of the safeRemove test (src/index.ts): a chain A -> B -> C -> D.
ChainModels ==
  [modelA |-> ObjectSchema(<<Id("modelA"), Field("modelBId", OptRef("modelB"))>>),
   modelB |-> ObjectSchema(<<Id("modelB"), Field("modelAId", Ref("modelA")),
                             Field("modelCId", OptRef("modelC"))>>),
   modelC |-> ObjectSchema(<<Id("modelC"), Field("modelBId", Ref("modelB")),
                             Field("modelDIds", OptRefs("modelD"))>>),
   modelD |-> ObjectSchema(<<Id("modelD"), Field("modelCId", Ref("modelC"))>>)]

\* Two dependency paths from A to D: A -> B -> D and A -> D.
DiamondModels ==
  [modelA |-> ObjectSchema(<<Id("modelA"), Field("modelBId", OptRef("modelB")),
                             Field("modelDId", OptRef("modelD"))>>),
   modelB |-> ObjectSchema(<<Id("modelB"), Field("modelAId", Ref("modelA")),
                             Field("modelDId", OptRef("modelD"))>>),
   modelD |-> ObjectSchema(<<Id("modelD"), Field("modelAId", Ref("modelA")),
                             Field("modelBId", Ref("modelB"))>>)]

\* X and its children Y all reference a record of Z, which lists them.
SharedModels ==
  [modelX |-> ObjectSchema(<<Id("modelX"), Field("modelYId", OptRef("modelY")),
                             Field("modelZId", Ref("modelZ"))>>),
   modelY |-> ObjectSchema(<<Id("modelY"), Field("modelXId", Ref("modelX")),
                             Field("modelZId", Ref("modelZ"))>>),
   modelZ |-> ObjectSchema(<<Id("modelZ"), Field("modelXId", OptRef("modelX")),
                             Field("modelYIds", OptRefs("modelY"))>>)]

\* Reciprocal pairs with an array on the required side: a scalar and an
\* array on the optional side.
OneManyModels ==
  [modelP |-> ObjectSchema(<<Id("modelP"), Field("modelQId", OptRef("modelQ"))>>),
   modelQ |-> ObjectSchema(<<Id("modelQ"), Field("modelPIds", Refs("modelP"))>>)]

ManyManyModels ==
  [modelR |-> ObjectSchema(<<Id("modelR"), Field("modelSIds", OptRefs("modelS"))>>),
   modelS |-> ObjectSchema(<<Id("modelS"), Field("modelRIds", Refs("modelR"))>>)]

\* A reciprocal pair with both sides optional.
OptionalPairModels ==
  [modelU |-> ObjectSchema(<<Id("modelU"), Field("modelVId", OptRef("modelV"))>>),
   modelV |-> ObjectSchema(<<Id("modelV"), Field("modelUId", OptRef("modelU"))>>)]

\* Foreign keys without a reciprocal field, marked to be left alone: a
\* required scalar and an optional array.
UnilateralModels ==
  [modelU |-> ObjectSchema(<<Id("modelU")>>),
   modelW |-> ObjectSchema(<<Id("modelW"),
                             Field("ownerId", Ignored(Ref("modelU")))>>),
   modelT |-> ObjectSchema(<<Id("modelT"),
                             Field("tagIds", Ignored(OptRefs("modelU")))>>)]

\* Two collections of which one's name starts the other's.
PrefixModels ==
  [post |-> ObjectSchema(<<Id("post"), Field("postMetaId", OptRef("postMeta"))>>),
   postMeta |-> ObjectSchema(<<Id("postMeta"), Field("postId", Ref("post"))>>)]

\* A ring of primary-to-secondary relations: A -> B -> C -> A.
RingModels ==
  [modelA |-> ObjectSchema(<<Id("modelA"), Field("modelBId", OptRef("modelB")),
                             Field("modelCId", Ref("modelC"))>>),
   modelB |-> ObjectSchema(<<Id("modelB"), Field("modelCId", OptRef("modelC")),
                             Field("modelAId", Ref("modelA"))>>),
   modelC |-> ObjectSchema(<<Id("modelC"), Field("modelAId", OptRef("modelA")),
                             Field("modelBId", Ref("modelB"))>>)]

\* A union collection whose two variants declare the same foreign key.
VariantsModels ==
  [modelG |-> UnionSchema(<<
                <<Id("modelG"), Field("modelHId", OptRef("modelH"))>>,
                <<Id("modelG"), Field("modelHId", OptRef("modelH")),
                  Field("note", Text)>> >>),
   modelH |-> ObjectSchema(<<Id("modelH"), Field("modelGId", Ref("modelG"))>>)]

\* A required scalar whose reciprocal is an optional array: the records of
\* modelM are listed by the record of modelL they belong to.
ListedModels ==
  [modelL |-> ObjectSchema(<<Id("modelL"), Field("modelMIds", OptRefs("modelM"))>>),
   modelM |-> ObjectSchema(<<Id("modelM"), Field("modelLId", Ref("modelL"))>>)]

\* The schema sets records are stored under.
NamedSchemaSets ==
  [chain |-> ChainModels, diamond |-> DiamondModels, shared |-> SharedModels,
   oneMany |-> OneManyModels, manyMany |-> ManyManyModels,
   optionalPair |-> OptionalPairModels, unilateral |-> UnilateralModels,
   prefix |-> PrefixModels, ring |-> RingModels, variants |-> VariantsModels,
   listed |-> ListedModels]

\* The shape of a declared field: a string or an array of strings, branded
\* as a foreign key of `brand` or not ("") , optional or not, marked with
\* the ignore-relation description or not.
Shapes(brands) ==
  [array : BOOLEAN, optional : BOOLEAN, ignored : BOOLEAN, brand : brands]

ShapedProperty(shape) ==
  LET brand == IF shape.brand = "" THEN NoBrand ELSE IdFor(shape.brand)
      p == IF shape.array
           THEN Property("array", shape.optional, NoBrand, "",
                         <<Prim("string", brand)>>)
           ELSE Property("string", shape.optional, brand, "", <<>>)
  IN IF shape.ignored THEN Ignored(p) ELSE p

\* How a declared field reads in a schema: `key: string<brand>?!`.
ShapeName(key, shape) ==
  key \o ": " \o (IF shape.array THEN "array" ELSE "string")
      \o (IF shape.brand = "" THEN "" ELSE "<" \o shape.brand \o ">")
      \o (IF shape.optional THEN "?" ELSE "")
      \o (IF shape.ignored THEN "!" ELSE "")

\* The declarations of the one field of modelA, a foreign key of modelB
\* under a conventional or another name, and of the field of modelB, which
\* has none or one under a reciprocal name.  A declaration is <<>> or
\* <<[key, shape]>>.
SourceDeclarations ==
  {<<[key |-> key, shape |-> shape]>> :
     key \in {"modelBId", "modelBIds", "ownerId"}, shape \in Shapes({"modelB"})}

TargetDeclarations ==
  {<<>>} \cup
  {<<[key |-> key, shape |-> shape]>> :
     key \in {"modelAId", "modelAIds"}, shape \in Shapes({"modelA", ""})}

DeclaredFields(declaration) ==
  [i \in DOMAIN declaration |->
     Field(declaration[i].key, ShapedProperty(declaration[i].shape))]

DeclarationName(declaration) ==
  IF declaration = <<>> THEN ""
  ELSE ShapeName(declaration[1].key, declaration[1].shape)

\* Every pair of such declarations, as a schema set with its name.
PairSchemaSet(source, target) ==
  [name |-> "modelA {" \o DeclarationName(source) \o "} modelB {"
                       \o DeclarationName(target) \o "}",
   models |->
     [modelA |-> ObjectSchema(<<Id("modelA")>> \o DeclaredFields(source)),
      modelB |-> ObjectSchema(<<Id("modelB")>> \o DeclaredFields(target))]]

PairSchemaSets ==
  {PairSchemaSet(source, target) :
     source \in SourceDeclarations, target \in TargetDeclarations}

\* The declarations of the one field of a lone modelA, a foreign key of
\* modelA itself, under the reciprocal name or another.
SelfDeclarations ==
  {<<[key |-> key, shape |-> shape]>> :
     key \in {"modelAId", "parentId"}, shape \in Shapes({"modelA"})}

SelfSchemaSet(source) ==
  [name |-> "modelA {" \o DeclarationName(source) \o "}",
   models |->
     [modelA |-> ObjectSchema(<<Id("modelA")>> \o DeclaredFields(source))]]

SelfSchemaSets == {SelfSchemaSet(source) : source \in SelfDeclarations}

\* The declarations of the id of modelA: a string without a brand, and a
\* string branded as a foreign key of modelB.
IdDeclarations ==
  {<<[key |-> "id", shape |-> shape]>> :
     shape \in [array : {FALSE}, optional : {FALSE}, ignored : {FALSE},
                brand : {"", "modelB"}]}

IdSchemaSet(id) ==
  [name |-> "modelA {" \o DeclarationName(id) \o "} modelB {}",
   models |->
     [modelA |-> ObjectSchema(DeclaredFields(id)),
      modelB |-> ObjectSchema(<<Id("modelB")>>)]]

IdSchemaSets == {IdSchemaSet(id) : id \in IdDeclarations}

\* modelA without an id: as an object schema, and as a union schema whose
\* second variant declares none.
NoIdSchemaSets ==
  {[name |-> "modelA {no id, modelBId: string<modelB>?} modelB {modelAId: string<modelA>}",
    models |->
      [modelA |-> ObjectSchema(<<Field("modelBId", OptRef("modelB"))>>),
       modelB |-> ObjectSchema(<<Id("modelB"), Field("modelAId", Ref("modelA"))>>)]],
   [name |-> "modelA {modelBId: string<modelB>?} | {no id, modelBId: string<modelB>?} modelB {modelAId: string<modelA>}",
    models |->
      [modelA |-> UnionSchema(<<
                    <<Id("modelA"), Field("modelBId", OptRef("modelB"))>>,
                    <<Field("modelBId", OptRef("modelB"))>> >>),
       modelB |-> ObjectSchema(<<Id("modelB"), Field("modelAId", Ref("modelA"))>>)]]}

\* The places a foreign-key brand sits at: the field itself, the element of
\* an array, a member of a union, a member of the union an array holds.
BrandPlaces == {"string", "array", "union", "array of union"}

UnionOf(members) == [type |-> "union", brand |-> NoBrand, of |-> members]

\* A field with a brand of `target` at `place`; a union has a member
\* without a brand before the branded one.
PlacedProperty(place, optional, ignored, target) ==
  LET branded == Prim("string", IdFor(target))
      members == <<Prim("string", NoBrand), branded>>
      p == CASE place = "string" ->
                  Property("string", optional, IdFor(target), "", <<>>)
             [] place = "array" ->
                  Property("array", optional, NoBrand, "", <<branded>>)
             [] place = "union" ->
                  Property("union", optional, NoBrand, "", members)
             [] place = "array of union" ->
                  Property("array", optional, NoBrand, "", <<UnionOf(members)>>)
  IN IF ignored THEN Ignored(p) ELSE p

\* modelA with one field branded as a foreign key of modelZ, a collection
\* that is not declared.
UndeclaredSchemaSet(place, optional, ignored) ==
  [name |-> "modelA {ownerId: " \o place \o "<modelZ>"
              \o (IF optional THEN "?" ELSE "")
              \o (IF ignored THEN "!" ELSE "") \o "} modelB {}, no modelZ",
   models |->
     [modelA |-> ObjectSchema(<<Id("modelA"),
                   Field("ownerId", PlacedProperty(place, optional, ignored, "modelZ"))>>),
      modelB |-> ObjectSchema(<<Id("modelB")>>)]]

UndeclaredSchemaSets ==
  {UndeclaredSchemaSet(place, optional, ignored) :
     place \in BrandPlaces, optional \in BOOLEAN, ignored \in BOOLEAN}

GeneratedSchemaSets ==
  PairSchemaSets \cup SelfSchemaSets \cup IdSchemaSets \cup NoIdSchemaSets
    \cup UndeclaredSchemaSets

\* The schema sets initRepo is given, by name.
SchemaSets ==
  NamedSchemaSets @@
  [name \in {set.name : set \in GeneratedSchemaSets} |->
     (CHOOSE set \in GeneratedSchemaSets : set.name = name).models]

\* initRepo: the relations of every collection, or the analyzer's throw.
Relations(models, collectionName) ==
  getCollectionForeignKeyRelations(models, collectionName).relations

InitRepoFails(models) ==
  \E c \in DOMAIN models : getCollectionForeignKeyRelations(models, c).err # NoError

(***************************************************************************)
(* Records and the document store.  A field value is undefined, a string   *)
(* or an array of strings; a record maps "id" and the keys of its schema   *)
(* to values; a collection is the sequence of its documents in insertion   *)
(* order.                                                                  *)
(***************************************************************************)
Undefined == [t |-> "undefined", v |-> <<>>]
Str(x) == [t |-> "string", v |-> <<x>>]
Arr(xs) == [t |-> "array", v |-> xs]

\* record[key], undefined for an absent key
ValueOf(record, key) == IF key \in DOMAIN record THEN record[key] ELSE Undefined
IdOf(record) == record["id"].v[1]

\* A MongoDB equality filter { [key]: value }: a scalar equal to the value,
\* or an array holding it.  An undefined value matches no stored document.
Matches(record, key, value) ==
  LET x == ValueOf(record, key)
  IN /\ value.t = "string"
     /\ \/ x = value
        \/ x.t = "array" /\ value.v[1] \in Range(x.v)

RECURSIVE Find(_, _, _)
Find(docs, key, value) ==
  IF docs = <<>> THEN <<>>
  ELSE (IF Matches(Head(docs), key, value) THEN <<Head(docs)>> ELSE <<>>)
       \o Find(Tail(docs), key, value)

\* get(filter, session) of a collection: collection.find(filter).toArray()
get(S, collectionName, key, value) == Find(S[collectionName], key, value)

\* collection.deleteOne({ [key]: value }): the first document the filter
\* matches goes.
RECURSIVE DeleteOne(_, _, _)
DeleteOne(docs, key, value) ==
  IF docs = <<>> THEN <<>>
  ELSE IF Matches(Head(docs), key, value) THEN Tail(docs)
       ELSE <<Head(docs)>> \o DeleteOne(Tail(docs), key, value)

\* collection.replaceOne({ id }, record, { upsert: false }): the first
\* document with that id is replaced in place; nothing is inserted.
RECURSIVE ReplaceOne(_, _, _)
ReplaceOne(docs, id, record) ==
  IF docs = <<>> THEN <<>>
  ELSE IF Matches(Head(docs), "id", Str(id)) THEN <<record>> \o Tail(docs)
       ELSE <<Head(docs)>> \o ReplaceOne(Tail(docs), id, record)

\* A call on the store: the operation, the collection, the filter { [key]:
\* value } and the session handed to the driver.
StoreCall(op, collectionName, key, value, session) ==
  [op |-> op, collectionName |-> collectionName, key |-> key,
   value |-> value, session |-> session]

\* __uuid.deleteOne({ id })
RECURSIVE UuidDeleteOne(_, _)
UuidDeleteOne(ids, value) ==
  IF ids = <<>> THEN <<>>
  ELSE IF Str(Head(ids)) = value THEN Tail(ids)
       ELSE <<Head(ids)>> \o UuidDeleteOne(Tail(ids), value)

\* What a call filtering on an id does to the documents and the registry, D =
\* [store, uuid]: a read leaves them alone.
Effect(D, call) ==
  CASE call.op = "deleteOne" ->
         [D EXCEPT !.store[call.collectionName] =
                     DeleteOne(@, call.key, call.value)]
    [] call.op = "uuidDeleteOne" ->
         [D EXCEPT !.uuid = UuidDeleteOne(@, call.value)]
    [] OTHER -> D

RECURSIVE Effects(_, _)
Effects(D, storeCalls) ==
  IF storeCalls = <<>> THEN D
  ELSE Effects(Effect(D, Head(storeCalls)), Tail(storeCalls))

\* tox.parse: every required property of the schema holds a value.
Parses(models, collectionName, record) ==
  \E i \in DOMAIN SchemaUnion(models[collectionName]) :
    LET fields == SchemaUnion(models[collectionName])[i]
    IN \A j \in DOMAIN fields :
         fields[j].p.optional = TRUE \/ ValueOf(record, fields[j].key) # Undefined

\* The pairs [collection, id] of the documents in the store.
Present(S) ==
  UNION {{<<c, IdOf(S[c][i])>> : i \in DOMAIN S[c]} : c \in DOMAIN S}

(***************************************************************************)
(* post, put and remove of the collection `collectionName`, on D = [store, *)
(* uuid]: the throw (NoError when the call resolves) and what the store    *)
(* and the registry are afterwards.                                        *)
(***************************************************************************)
\* collection.replaceOne({ id }, record, { upsert: true })
Upsert(docs, id, record) ==
  IF Find(docs, "id", Str(id)) = <<>> THEN Append(docs, record)
  ELSE ReplaceOne(docs, id, record)

\* __uuid.findOne({ id }) !== null
IdIsTaken(ids, id) == \E i \in DOMAIN ids : ids[i] = id

post(D, models, collectionName, input) ==
  IF ~Parses(models, collectionName, input)
  THEN [error |-> Error("either.left", <<>>), store |-> D.store, uuid |-> D.uuid]
  ELSE IF IdIsTaken(D.uuid, IdOf(input))
  THEN [error |-> Error("idIsAlreadyTaken", <<IdOf(input)>>),
        store |-> D.store, uuid |-> D.uuid]
  ELSE IF get(D.store, collectionName, "id", Str(IdOf(input))) # <<>>
  THEN [error |-> Error("recordAlreadyExists", <<collectionName, IdOf(input)>>),
        store |-> D.store, uuid |-> D.uuid]
  ELSE [error |-> NoError,
        store |-> [D.store EXCEPT ![collectionName] = Upsert(@, IdOf(input), input)],
        uuid |-> Append(D.uuid, IdOf(input))]

\* stagedRecord[key] = stagedRecord[key] ?? undefined, for every schema key
WithSchemaKeys(record, schemaKeys) ==
  [key \in DOMAIN record \cup schemaKeys |-> ValueOf(record, key)]

\* A put that passes upsert: true, as post does: what "put never creates"
\* must exclude.
putUpserting(D, models, schemaKeys, collectionName, input) ==
  IF ~Parses(models, collectionName, input)
  THEN [error |-> Error("either.left", <<>>), store |-> D.store, uuid |-> D.uuid]
  ELSE [error |-> NoError,
        store |-> [D.store EXCEPT ![collectionName] =
                     Upsert(@, IdOf(input), WithSchemaKeys(input, schemaKeys))],
        uuid |-> D.uuid]

put(D, models, schemaKeys, collectionName, input) ==
  IF ~Parses(models, collectionName, input)
  THEN [error |-> Error("either.left", <<>>), store |-> D.store, uuid |-> D.uuid]
  ELSE IF get(D.store, collectionName, "id", Str(IdOf(input))) = <<>>
  THEN [error |-> Error("recordNotExists", <<collectionName, IdOf(input)>>),
        store |-> D.store, uuid |-> D.uuid]
  ELSE [error |-> NoError,
        store |-> [D.store EXCEPT ![collectionName] =
                     ReplaceOne(@, IdOf(input), WithSchemaKeys(input, schemaKeys))],
        uuid |-> D.uuid]

\* Array.isArray(idOrIds) ? idOrIds : [idOrIds]
IdsOf(idOrIds) == IF idOrIds.t = "array" THEN idOrIds.v ELSE <<idOrIds.v[1]>>

(***************************************************************************)
(* The cascading removal planner: safeRemove(id, session, userId) of the   *)
(* collection `collectionName`.  R maps each collection of the repository  *)
(* to its relations; S is the store it reads.  The value is the plan (the  *)
(* staged lists and the two queues `confirm` closes over), or the throw,   *)
(* together with the store calls it issued, in order.                      *)
(***************************************************************************)
NoSession == "no-session"
NoUser == "no-user"

\* A MutationReport: [brand, id].
MutationReport(collectionName, id) == <<collectionName, id>>

\* A planner whose lookups are deletes: what the read-only property of
\* planning must exclude.
GetCallDeleting(collectionName, key, value, session) ==
  StoreCall("deleteOne", collectionName, key, value, session)

\* collection.find(filter, { session }).toArray(), the one call `get` makes
GetCall(collectionName, key, value, session) ==
  StoreCall("get", collectionName, key, value, session)

\* What a finished loop hands on: the four arrays of safeRemove, the calls
\* issued so far, and whether something threw.
EmptyAcc(calls) ==
  [status |-> "ok", error |-> "", stagedForRemove |-> <<>>,
   stagedForUpdate |-> <<>>, confirmQueue |-> <<>>, updateQueue |-> <<>>,
   calls |-> calls]

Throw(acc, error) == [acc EXCEPT !.status = "throw", !.error = error]

\* A return that hands out the staged array as it is, empty or not.
OrUndefinedKept(list) == [defined |-> TRUE, list |-> list]

\* `list.length ? list : undefined`
OrUndefined(list) == [defined |-> list # <<>>, list |-> list]

\* The closure pushed on updateQueue: it puts `record` and reports `feedback`.
UpdateAction(collectionName, record, session, userId, feedback) ==
  [collectionName |-> collectionName, record |-> record, session |-> session,
   userId |-> userId, feedback |-> feedback]

\* What the `confirm` of a plan closes over.
ConfirmClosure(collectionName, id, session, confirmQueue, updateQueue) ==
  [collectionName |-> collectionName, id |-> id, session |-> session,
   confirmQueue |-> confirmQueue, updateQueue |-> updateQueue]

\* An update that empties the array instead of filtering it.
WithoutReferenceEmptied(targetInitial, key, id) ==
  [targetInitial EXCEPT ![key] = Arr(<<>>)]

\* { ...targetInitial, [key]: targetInitial[key].filter((x) => x !== id) }
WithoutReference(targetInitial, key, id) ==
  [targetInitial EXCEPT ![key] = Arr(Without(targetInitial[key].v, id))]

\* case 'secondary-to-primary', cardinality 'one-to-one'
StageOneToOne(S, id, session, userId, sourceRecord, relation, acc) ==
  LET targetId == ValueOf(sourceRecord, relation.sourceCollectionFieldKey)
      target == relation.targetCollectionName
      found == get(S, target, "id", targetId)
      read == GetCall(target, "id", targetId, NoSession)
  IN IF targetId = Undefined THEN Throw(acc, "Missing targetId")
     ELSE IF found = <<>> THEN [acc EXCEPT !.calls = @ \o <<read>>]
     ELSE LET targetInitial == Head(found)
              hasReference ==
                ValueOf(targetInitial, relation.targetCollectionFieldKey) = Str(id)
              feedback == MutationReport(target, targetId.v[1])
          IN IF hasReference
             THEN [acc EXCEPT
                     !.calls = @ \o <<read>>,
                     !.updateQueue = Append(@, UpdateAction(target,
                        [targetInitial EXCEPT
                           ![relation.targetCollectionFieldKey] = Undefined],
                        session, userId, feedback)),
                     !.stagedForUpdate = Append(@, feedback)]
             ELSE [acc EXCEPT !.calls = @ \o <<read>>]

\* case 'secondary-to-primary', cardinality 'one-to-many'
StageOneToMany(S, id, session, userId, sourceRecord, relation, acc) ==
  LET targetId == ValueOf(sourceRecord, relation.sourceCollectionFieldKey)
      target == relation.targetCollectionName
      found == get(S, target, "id", targetId)
      read == GetCall(target, "id", targetId, NoSession)
  IN IF found = <<>> THEN [acc EXCEPT !.calls = @ \o <<read>>]
     ELSE LET targetInitial == Head(found)
              references == ValueOf(targetInitial, relation.targetCollectionFieldKey)
              hasReference == references.t = "array" /\ id \in Range(references.v)
              feedback == MutationReport(target, targetId.v[1])
          IN IF hasReference
             THEN [acc EXCEPT
                     !.calls = @ \o <<read>>,
                     !.updateQueue = Append(@, UpdateAction(target,
                        WithoutReference(targetInitial,
                           relation.targetCollectionFieldKey, id),
                        session, userId, feedback)),
                     !.stagedForUpdate = Append(@, feedback)]
             ELSE [acc EXCEPT !.calls = @ \o <<read>>]

\* case 'secondary-to-primary': the switch over the cardinality has no default.
StageSecondaryToPrimary(S, id, session, userId, sourceRecord, relation, acc) ==
  CASE relation.cardinalityType = "one-to-one" ->
         StageOneToOne(S, id, session, userId, sourceRecord, relation, acc)
    [] relation.cardinalityType = "one-to-many" ->
         StageOneToMany(S, id, session, userId, sourceRecord, relation, acc)
    [] OTHER -> acc

\* The filter value of the primary-to-secondary fetch: the cardinalities the
\* switch returns `id` for.
CascadedCardinality(cardinalityType) ==
  cardinalityType \in {"one-to-one", "many-to-one"}

\* A staging loop that forgets what the child plan staged.
MergeStagedDropped(stagedForRemove, deepRemove) == stagedForRemove

\* `if (deepRemove.stagedForRemove) for (const x of ...) stagedForRemove.push(x)`
MergeStaged(stagedForRemove, deepRemove) ==
  IF deepRemove.stagedForRemove.defined
  THEN stagedForRemove \o deepRemove.stagedForRemove.list
  ELSE stagedForRemove

\* A default case that breaks out of the switch instead of throwing.
UnsupportedDependencyKindSkipped(acc) == acc

\* The default case of the switch over dependencyKind.
UnsupportedDependencyKind(acc) ==
  Throw(acc, "Not supported relation dependencyKind")

RECURSIVE safeRemove(_, _, _, _, _, _, _)
RECURSIVE StageRecords(_, _, _, _, _, _)
RECURSIVE StageRelations(_, _, _, _, _, _, _, _, _)

\* `for (const record of records)` of case 'primary-to-secondary'.  `path`
\* holds the records whose safeRemove is on the call stack: planning one of
\* them again repeats the same reads and never returns.
StageRecords(S, R, relation, records, acc, path) ==
  IF records = <<>> THEN acc
  ELSE LET target == relation.targetCollectionName
           recordId == IdOf(Head(records))
           staged == [acc EXCEPT !.stagedForRemove =
                        Append(@, MutationReport(target, recordId))]
       IN IF <<target, recordId>> \in path
          THEN [staged EXCEPT !.status = "diverges"]
          ELSE LET deepRemove == safeRemove(S, R, target, recordId,
                                            NoSession, NoUser, path)
                   called == [staged EXCEPT !.calls = @ \o deepRemove.calls]
               IN IF deepRemove.status # "ok"
                  THEN [called EXCEPT !.status = deepRemove.status,
                                      !.error = deepRemove.error]
                  ELSE StageRecords(S, R, relation, Tail(records),
                         [called EXCEPT
                            !.confirmQueue = Append(@, deepRemove.confirm),
                            !.stagedForRemove = MergeStaged(@, deepRemove)],
                         path)

\* `for (const relation of relations)` with its switch over dependencyKind.
StageRelations(S, R, id, session, userId, sourceRecord, relations, acc, path) ==
  IF relations = <<>> \/ acc.status # "ok" THEN acc
  ELSE LET relation == Head(relations)
           next ==
             CASE relation.dependencyKind = "primary-to-secondary" ->
                    IF relation.targetCollectionName \notin DOMAIN R
                    THEN Throw(acc, "Missing targetCollection")
                    ELSE IF ~CascadedCardinality(relation.cardinalityType)
                    THEN Throw(acc, "Not supported relation cardinality type")
                    ELSE StageRecords(S, R, relation,
                           get(S, relation.targetCollectionName,
                               relation.targetCollectionFieldKey, Str(id)),
                           [acc EXCEPT !.calls = Append(@,
                              GetCall(relation.targetCollectionName,
                                      relation.targetCollectionFieldKey,
                                      Str(id), session))],
                           path)
               [] relation.dependencyKind = "secondary-to-primary" ->
                    IF relation.targetCollectionName \notin DOMAIN R
                    THEN Throw(acc, "Missing targetCollection")
                    ELSE StageSecondaryToPrimary(S, id, session, userId,
                                                 sourceRecord, relation, acc)
               [] OTHER -> UnsupportedDependencyKind(acc)
       IN StageRelations(S, R, id, session, userId, sourceRecord,
                         Tail(relations), next, path)

\* A safeRemove without the check of the source record: it stages over a
\* record that holds nothing but the id.
safeRemoveUnchecked(S, R, collectionName, id, session, userId, path) ==
  LET found == get(S, collectionName, "id", Str(id))
      read == GetCall(collectionName, "id", Str(id), session)
      acc == StageRelations(S, R, id, session, userId,
                            IF found = <<>> THEN ("id" :> Str(id)) ELSE Head(found),
                            R[collectionName], EmptyAcc(<<read>>),
                            path \cup {<<collectionName, id>>})
  IN [status |-> acc.status,
      error |-> acc.error,
      stagedForRemove |-> OrUndefined(acc.stagedForRemove),
      stagedForUpdate |-> OrUndefined(acc.stagedForUpdate),
      confirm |-> ConfirmClosure(collectionName, id, session,
                                 acc.confirmQueue, acc.updateQueue),
      calls |-> acc.calls]

\* safeRemove(id, session, userId): the source record is read and must exist;
\* the relations of the collection are staged over it.
safeRemove(S, R, collectionName, id, session, userId, path) ==
  LET found == get(S, collectionName, "id", Str(id))
      read == GetCall(collectionName, "id", Str(id), session)
      acc == IF found = <<>>
             THEN Throw(EmptyAcc(<<read>>), "Missing source record")
             ELSE StageRelations(S, R, id, session, userId, Head(found),
                                 R[collectionName], EmptyAcc(<<read>>),
                                 path \cup {<<collectionName, id>>})
  IN [status |-> acc.status,
      error |-> acc.error,
      stagedForRemove |-> OrUndefined(acc.stagedForRemove),
      stagedForUpdate |-> OrUndefined(acc.stagedForUpdate),
      confirm |-> ConfirmClosure(collectionName, id, session,
                                 acc.confirmQueue, acc.updateQueue),
      calls |-> acc.calls]

(***************************************************************************)
(* confirm(): the result it computes, and the store calls it issues.       *)
(***************************************************************************)
\* getUniqueId: x[0] + x[1]
getUniqueId(x) == x[1] \o x[2]

\* The first loop of the deduplication: the first report of each key stays.
RECURSIVE DedupRemoved(_, _)
DedupRemoved(changes, removedUniqueIds) ==
  IF changes = <<>> THEN <<>>
  ELSE LET uniqueId == getUniqueId(Head(changes))
       IN IF uniqueId \in removedUniqueIds
          THEN DedupRemoved(Tail(changes), removedUniqueIds)
          ELSE <<Head(changes)>>
               \o DedupRemoved(Tail(changes), removedUniqueIds \cup {uniqueId})

\* A second loop that forgets the keys of the removed records.
RECURSIVE DedupUpdatedKeepingRemoved(_, _, _)
DedupUpdatedKeepingRemoved(changes, updatedUniqueIds, removedUniqueIds) ==
  IF changes = <<>> THEN <<>>
  ELSE LET uniqueId == getUniqueId(Head(changes))
       IN IF uniqueId \in updatedUniqueIds
          THEN DedupUpdatedKeepingRemoved(Tail(changes), updatedUniqueIds,
                                          removedUniqueIds)
          ELSE <<Head(changes)>>
               \o DedupUpdatedKeepingRemoved(Tail(changes),
                     updatedUniqueIds \cup {uniqueId}, removedUniqueIds)

\* The second loop: a report stays unless its key was seen in `updated` or
\* is the key of a removed record.
RECURSIVE DedupUpdated(_, _, _)
DedupUpdated(changes, updatedUniqueIds, removedUniqueIds) ==
  IF changes = <<>> THEN <<>>
  ELSE LET uniqueId == getUniqueId(Head(changes))
       IN IF uniqueId \in updatedUniqueIds \/ uniqueId \in removedUniqueIds
          THEN DedupUpdated(Tail(changes), updatedUniqueIds, removedUniqueIds)
          ELSE <<Head(changes)>>
               \o DedupUpdated(Tail(changes), updatedUniqueIds \cup {uniqueId},
                               removedUniqueIds)

\* A confirm that returns the empty `updated` array it ends up with.
DeleteIfEmptyKept(updated) == [defined |-> TRUE, list |-> updated]

\* `if (deduplicatedResult.updated?.length === 0) delete deduplicatedResult.updated`
DeleteIfEmpty(updated) == [defined |-> updated # <<>>, list |-> updated]

\* The SafeRemoveResult a confirm resolves with: `updated` is deleted when
\* empty.
RECURSIVE ConfirmResult(_)
ConfirmResult(confirm) ==
  LET confirmed == [i \in DOMAIN confirm.confirmQueue |->
                      ConfirmResult(confirm.confirmQueue[i])]
      removed == Flatten([i \in DOMAIN confirmed |-> confirmed[i].removed])
                 \o <<MutationReport(confirm.collectionName, confirm.id)>>
      updated == Flatten([i \in DOMAIN confirmed |->
                            IF confirmed[i].updated.defined
                            THEN confirmed[i].updated.list ELSE <<>>])
                 \o [i \in DOMAIN confirm.updateQueue |->
                       confirm.updateQueue[i].feedback]
      removedUniqueIds == {getUniqueId(removed[i]) : i \in DOMAIN removed}
  IN [removed |-> DedupRemoved(removed, {}),
      updated |-> DeleteIfEmpty(DedupUpdated(updated, {}, removedUniqueIds))]

\* The steps of remove(id, session): the document, then its registry entry.
RemoveSteps(collectionName, id, session) ==
  <<[call |-> StoreCall("deleteOne", collectionName, "id", Str(id), session),
     record |-> <<>>],
    [call |-> StoreCall("uuidDeleteOne", collectionName, "id", Str(id), session),
     record |-> <<>>]>>

\* remove(idOrIds, session) of a collection, on D = [store, uuid]: for every
\* id, the document and then the registry entry.
remove(D, collectionName, idOrIds, session) ==
  LET ids == IdsOf(idOrIds)
      removals == Flatten([i \in DOMAIN ids |->
                             RemoveSteps(collectionName, ids[i], session)])
  IN Effects(D, [i \in DOMAIN removals |-> removals[i].call])

\* An update action: it calls put with the rewritten record and returns
\* without awaiting it.
PutStep(update) ==
  [call |-> StoreCall("put", update.collectionName, "id",
                      Str(IdOf(update.record)), update.session),
   record |-> update.record]

\* The store calls confirm() makes, in the order it makes them: the queued
\* confirmations (each awaited), the queued updates, the root's remove.
RECURSIVE ConfirmSteps(_)
ConfirmSteps(confirm) ==
  Flatten([i \in DOMAIN confirm.confirmQueue |->
             ConfirmSteps(confirm.confirmQueue[i])])
  \o [i \in DOMAIN confirm.updateQueue |-> PutStep(confirm.updateQueue[i])]
  \o RemoveSteps(confirm.collectionName, confirm.id, confirm.session)

(***************************************************************************)
(* The stores a run starts from: at most MaxRecords documents over the     *)
(* collections of the schema set, every one well typed for its schema, and *)
(* every foreign key it holds the id of a document of the target.          *)
(***************************************************************************)
MaxRecords == 3

Digits == <<"1", "2", "3", "4", "5", "6", "7", "8", "9">>
\* The ids of a collection's documents are strings of the caller's choice:
\* here the collection name and a number, but for the two collections whose
\* names share a prefix, "Meta1", ... for post and "1", ... for postMeta.
IdPrefix(collectionName) ==
  CASE collectionName = "post" -> "Meta"
    [] collectionName = "postMeta" -> ""
    [] OTHER -> collectionName \o "-"
RecordId(collectionName, i) == IdPrefix(collectionName) \o Digits[i]

\* The ids of the first n documents of a collection.
IdsUpTo(collectionName, n) == [i \in 1..n |-> RecordId(collectionName, i)]

\* The subsequences of a sequence.
RECURSIVE SubSeqs(_)
SubSeqs(s) ==
  IF s = <<>> THEN {<<>>}
  ELSE LET rest == SubSeqs(Tail(s))
       IN rest \cup {<<Head(s)>> \o r : r \in rest}

\* The brand target of a foreign key property ("" when it is none).
TargetOf(p) ==
  IF p.type = "array" THEN extractForeignKeyBrand(p.of[1]).brand
  ELSE IF p.type = "string" THEN extractForeignKeyBrand(p).brand
  ELSE ""

\* The values a property may hold when the collections hold `counts` documents.
ValuesOf(p, counts) ==
  LET target == TargetOf(p)
      ids == IF target \in DOMAIN counts
             THEN IdsUpTo(target, counts[target]) ELSE <<>>
      held == IF target = "" THEN {Str("text")}
              ELSE IF p.type = "array" THEN {Arr(xs) : xs \in SubSeqs(ids)}
              ELSE {Str(ids[i]) : i \in DOMAIN ids}
  IN held \cup (IF p.optional = TRUE THEN {Undefined} ELSE {})

\* The records of a collection with the given id.
RECURSIVE RecordsOf(_, _, _)
RecordsOf(fields, id, counts) ==
  IF fields = <<>> THEN {<<>>}
  ELSE LET f == Head(fields)
           rest == RecordsOf(Tail(fields), id, counts)
       IN IF f.key = "id" THEN {("id" :> Str(id)) @@ r : r \in rest}
          ELSE {(f.key :> v) @@ r : v \in ValuesOf(f.p, counts), r \in rest}

\* The contents of a collection: documents 1..n in insertion order.
RECURSIVE DocumentsOf(_, _, _, _)
DocumentsOf(models, collectionName, n, counts) ==
  IF n = 0 THEN {<<>>}
  ELSE {Append(docs, r) :
          docs \in DocumentsOf(models, collectionName, n - 1, counts),
          r \in UNION {RecordsOf(SchemaUnion(models[collectionName])[v],
                                 RecordId(collectionName, n), counts) :
                         v \in DOMAIN SchemaUnion(models[collectionName])}}

RECURSIVE Sum(_, _)
Sum(f, keys) ==
  IF keys = {} THEN 0
  ELSE LET k == CHOOSE x \in keys : TRUE IN f[k] + Sum(f, keys \ {k})

Counts(models) ==
  {counts \in [DOMAIN models -> 0..MaxRecords] :
     Sum(counts, DOMAIN models) <= MaxRecords}

\* The stores over a schema set, collection by collection.
RECURSIVE StoresOver(_, _, _)
StoresOver(models, names, counts) ==
  IF names = {} THEN {<<>>}
  ELSE LET c == CHOOSE x \in names : TRUE
       IN {(c :> docs) @@ rest :
             docs \in DocumentsOf(models, c, counts[c], counts),
             rest \in StoresOver(models, names \ {c}, counts)}

Stores(models) ==
  UNION {StoresOver(models, DOMAIN models, counts) : counts \in Counts(models)}

\* The dependency kinds safeRemove has a case for.
CascadingKinds == {"primary-to-secondary", "secondary-to-primary"}

\* Every reference a record holds in the source field of a relation of a
\* cascading kind names a document of the target collection that holds
\* the record's own id in the reciprocal field.
Consistent(S, R) ==
  \A c \in DOMAIN S : \A i \in DOMAIN S[c] : \A k \in DOMAIN R[c] :
    LET relation == R[c][k]
        held == ValueOf(S[c][i], relation.sourceCollectionFieldKey)
    IN relation.dependencyKind \in CascadingKinds =>
         \A x \in Range(held.v) :
           \E t \in Range(get(S, relation.targetCollectionName, "id", Str(x))) :
             Matches(t, relation.targetCollectionFieldKey, Str(IdOf(S[c][i])))

\* The records a cascade from `reached` reaches: those of a target
\* collection of a primary-to-secondary relation whose reciprocal field
\* matches the id of a reached record, and so on.
RECURSIVE Reach(_, _, _)
Reach(S, R, reached) ==
  LET dependents(x) ==
        UNION {IF R[x[1]][k].dependencyKind = "primary-to-secondary"
               THEN {<<R[x[1]][k].targetCollectionName, IdOf(t)>> :
                       t \in Range(get(S, R[x[1]][k].targetCollectionName,
                                       R[x[1]][k].targetCollectionFieldKey,
                                       Str(x[2])))}
               ELSE {} : k \in DOMAIN R[x[1]]}
      next == reached \cup UNION {dependents(x) : x \in reached}
  IN IF next = reached THEN reached ELSE Reach(S, R, next)

(***************************************************************************)
(* The state: a repository initialised over one schema set, its store and  *)
(* id registry, one safeRemove call with the plan it returned, the         *)
(* position of that plan's confirm(), and the puts it left running.        *)
(***************************************************************************)
VARIABLES
  schemaSet,   \* the name of the schema set given to initRepo
  analysed,    \* collection name -> what the relation analyzer returned for
               \* it (its throw, or its relations and schema keys)
  store,       \* collection name -> its documents
  uuid,        \* the documents of the "__uuid" collection: the ids in use
  initial,     \* the store and registry as they were before the call
  phase,       \* "new" (no record stored yet), "idle", "planned", "rejected", "diverged", "discarded",
               \* "confirming", "confirmed", "failed" (confirm() rejected),
               \* "served" (post, put or remove called)
  plan,        \* what safeRemove returned (or how it failed)
  steps,       \* the store calls the confirm() under way is to make
  pc,          \* how many of them it has made
  inflight,    \* the puts called by update actions, each with its progress
  result,      \* what confirm() resolved with
  calls,       \* every store call issued since the call of safeRemove
  client       \* the calls of post, put and remove made on the repository,
               \* each with its input and its outcome

vars == <<schemaSet, analysed, store, uuid, initial, phase, plan, steps, pc, inflight,
          result, calls, client>>

\* initRepo: result[collectionName].relations of every collection.
Repo(models) == [c \in DOMAIN models |-> Relations(models, c)]

\* The repository of each schema set.
Repos == [name \in DOMAIN SchemaSets |-> Repo(SchemaSets[name])]

Session == "session"
UserId == "user"
NoPlan == [status |-> "none"]
NoResult == [removed |-> <<>>, updated |-> OrUndefined(<<>>)]

\* The ids safeRemove is called with: those of the documents of the
\* collection, and one that no document has.
RootIds(collectionName) ==
  {RecordId(collectionName, i) : i \in 1..(Len(store[collectionName]) + 1)}

\* The ids of all documents, collection by collection.
RECURSIVE IdsIn(_, _)
IdsIn(S, names) ==
  IF names = {} THEN <<>>
  ELSE LET c == CHOOSE x \in names : TRUE
       IN [i \in DOMAIN S[c] |-> IdOf(S[c][i])] \o IdsIn(S, names \ {c})

\* A collection the analyzer has not been called for.
Pending == [err |-> Error("pending", <<>>), relations |-> <<>>, schemaKeys |-> {}]

\* Every collection is analysed and none made the analyzer throw: initRepo
\* resolves with the repository.
Initialised ==
  \A c \in DOMAIN analysed : analysed[c].err = NoError

Init ==
  /\ schemaSet \in DOMAIN SchemaSets
  /\ analysed = [c \in DOMAIN SchemaSets[schemaSet] |-> Pending]
  /\ store = [c \in DOMAIN SchemaSets[schemaSet] |-> <<>>]
  /\ uuid = <<>>
  /\ initial = [store |-> store, uuid |-> uuid]
  /\ phase = "new"
  /\ plan = NoPlan
  /\ steps = <<>>
  /\ pc = 0
  /\ inflight = <<>>
  /\ result = NoResult
  /\ calls = {}
  /\ client = <<>>

\* getCollectionForeignKeyRelations(models, collectionName), as initRepo
\* calls it for each collection.
Analyse(collectionName) ==
  /\ phase = "new"
  /\ analysed[collectionName] = Pending
  /\ analysed' = [analysed EXCEPT ![collectionName] =
       getCollectionForeignKeyRelations(SchemaSets[schemaSet], collectionName)]
  /\ UNCHANGED <<client, schemaSet, store, uuid, initial, phase, plan, steps, pc,
                 inflight, result, calls>>

\* mongo().collection.insertMany(samples), collection by collection: the
\* initialised repository is filled with records.
InsertMany ==
  /\ phase = "new"
  /\ Initialised
  /\ schemaSet \in DOMAIN NamedSchemaSets
  /\ store' \in Stores(SchemaSets[schemaSet])
  /\ uuid' = IdsIn(store', DOMAIN store')
  /\ initial' = [store |-> store', uuid |-> uuid']
  /\ phase' = "idle"
  /\ UNCHANGED <<client, schemaSet, analysed, plan, steps, pc, inflight, result, calls>>

\* await repo[collectionName].safeRemove(id, session, userId)
CallSafeRemove(collectionName, id) ==
  /\ phase = "idle"
  /\ LET p == safeRemove(store, Repos[schemaSet], collectionName,
                         id, Session, UserId, {})
         after == Effects([store |-> store, uuid |-> uuid], p.calls)
     IN /\ plan' = [status |-> p.status, error |-> p.error,
                    stagedForRemove |-> p.stagedForRemove,
                    stagedForUpdate |-> p.stagedForUpdate,
                    confirm |-> p.confirm]
        /\ phase' = CASE p.status = "ok" -> "planned"
                      [] p.status = "throw" -> "rejected"
                      [] OTHER -> "diverged"
        /\ calls' = Range(p.calls)
        /\ store' = after.store
        /\ uuid' = after.uuid
  /\ UNCHANGED <<client, schemaSet, analysed, initial, steps, pc, inflight, result>>

\* The caller drops the plan without confirming it.
Discard ==
  /\ phase = "planned"
  /\ phase' = "discarded"
  /\ UNCHANGED <<client, schemaSet, analysed, store, uuid, initial, plan, steps, pc, inflight,
                 result, calls>>

\* The caller invokes plan.confirm().
CallConfirm ==
  /\ phase = "planned"
  /\ phase' = "confirming"
  /\ steps' = ConfirmSteps(plan.confirm)
  /\ UNCHANGED <<client, schemaSet, analysed, store, uuid, initial, plan, pc, inflight,
                 result, calls>>

\* A put that gives up when the stored record is no longer the one the
\* plan was computed from: what a confirm() that writes its planning-time
\* snapshot must exclude.
PutCalledOnUnmodified(step) ==
  IF /\ Parses(SchemaSets[schemaSet], step.call.collectionName, step.record)
     /\ get(store, step.call.collectionName, "id", step.call.value)
          = get(initial.store, step.call.collectionName, "id", step.call.value)
  THEN [step |-> step, at |-> "get"]
  ELSE [step |-> step, at |-> "rejected"]

\* put, up to its first await: tox.parse throws on an invalid input, else
\* the lookup of the record is sent.
PutCalled(step) ==
  IF Parses(SchemaSets[schemaSet], step.call.collectionName, step.record)
  THEN [step |-> step, at |-> "get"]
  ELSE [step |-> step, at |-> "rejected"]

\* confirm() makes its next store call: an update action calls put and goes
\* on, a remove is awaited.
ConfirmStep ==
  /\ phase = "confirming"
  /\ pc < Len(steps)
  /\ LET step == steps[pc + 1]
         after == Effect([store |-> store, uuid |-> uuid], step.call)
     IN /\ inflight' = IF step.call.op = "put"
                       THEN Append(inflight, PutCalled(step)) ELSE inflight
        /\ store' = after.store
        /\ uuid' = after.uuid
        /\ calls' = calls \cup {step.call}
  /\ pc' = pc + 1
  /\ UNCHANGED <<client, schemaSet, analysed, initial, phase, plan, steps, result>>

\* confirm() resolves with the deduplicated result.
ConfirmReturn ==
  /\ phase = "confirming"
  /\ pc = Len(steps)
  /\ phase' = "confirmed"
  /\ result' = ConfirmResult(plan.confirm)
  /\ UNCHANGED <<client, schemaSet, analysed, store, uuid, initial, plan, steps, pc, inflight,
                 calls>>

\* A running put reads the record it is about to replace: it throws (and
\* its promise, which nobody holds, rejects) when there is none.
PutGet(i) ==
  /\ inflight[i].at = "get"
  /\ LET call == inflight[i].step.call
     IN /\ inflight' = [inflight EXCEPT ![i].at =
             IF get(store, call.collectionName, "id", call.value) = <<>>
             THEN "rejected" ELSE "replaceOne"]
        /\ calls' = calls \cup {GetCall(call.collectionName, "id", call.value,
                                        call.session)}
  /\ UNCHANGED <<client, schemaSet, analysed, store, uuid, initial, phase, plan, steps, pc, result>>

\* A running put replaces the document (upsert: false); the read of the
\* stored record that follows changes nothing.
PutReplaceOne(i) ==
  /\ inflight[i].at = "replaceOne"
  /\ LET call == inflight[i].step.call
     IN /\ store' = [store EXCEPT ![call.collectionName] =
                       ReplaceOne(@, call.value.v[1], inflight[i].step.record)]
        /\ calls' = calls \cup {StoreCall("replaceOne", call.collectionName,
                                          "id", call.value, call.session)}
  /\ inflight' = [inflight EXCEPT ![i].at = "fulfilled"]
  /\ UNCHANGED <<client, schemaSet, analysed, uuid, initial, phase, plan, steps, pc, result>>

\* The schema sets in whose confirmations a store call may reject (the
\* connection drops, the transaction of the session aborts).
FaultSchemaSets == {"chain", "oneMany", "optionalPair", "unilateral", "prefix"}

\* The store call confirm() awaits next rejects: so does confirm(), and it
\* makes no further call.
ConfirmStepFails ==
  /\ schemaSet \in FaultSchemaSets
  /\ phase = "confirming"
  /\ pc < Len(steps)
  /\ steps[pc + 1].call.op # "put"
  /\ phase' = "failed"
  /\ UNCHANGED <<client, schemaSet, analysed, store, uuid, initial, plan, steps, pc,
                 inflight, result, calls>>

\* A store call of a running put rejects: so does the put, whose promise
\* nobody holds.
PutFails(i) ==
  /\ schemaSet \in FaultSchemaSets
  /\ inflight[i].at \in {"get", "replaceOne"}
  /\ inflight' = [inflight EXCEPT ![i].at = "failed"]
  /\ UNCHANGED <<client, schemaSet, analysed, store, uuid, initial, phase, plan, steps,
                 pc, result, calls>>

\* The repository whose post, put and remove are called directly.
ClientSchemaSets == {"oneMany"}

\* The collections whose repository takes a call in the current state.
MaxClientRecords == 2
ClientCollections ==
  IF /\ schemaSet \in ClientSchemaSets
     /\ phase \in {"idle", "served"}
     /\ Cardinality(Present(initial.store)) <= MaxClientRecords
  THEN DOMAIN store ELSE {}

\* The ids a caller passes: those of the documents stored now or at the
\* start, in any collection, and one the collection never held.
ClientIds(collectionName) ==
  {x[2] : x \in Present(store) \cup Present(initial.store)}
    \cup {RecordId(collectionName, Len(initial.store[collectionName]) + 1)}

\* A record of the collection with every required property set, and no
\* optional one.
Template(fields, id) ==
  [key \in {fields[i].key : i \in DOMAIN fields} |->
     LET p == PropertyOf(fields, key)
     IN IF key = "id" THEN Str(id)
        ELSE IF p.optional = TRUE THEN Undefined
        ELSE IF TargetOf(p) = "" THEN Str("text")
        ELSE IF p.type = "array" THEN Arr(<<RecordId(TargetOf(p), 1)>>)
        ELSE Str(RecordId(TargetOf(p), 1))]

\* An input with nothing but the id.
Bare(id) == "id" :> Str(id)

\* The inputs of post and put.
Inputs(collectionName) ==
  {Template(SchemaSets[schemaSet][collectionName].of, id) :
     id \in ClientIds(collectionName)}
    \cup {Bare(id) : id \in ClientIds(collectionName)}

\* The inputs of remove: an id, or a list of at most two.
IdOrIds(collectionName) ==
  {Str(id) : id \in ClientIds(collectionName)}
    \cup {Arr(<<>>)}
    \cup {Arr(<<id>>) : id \in ClientIds(collectionName)}
    \cup {Arr(<<x[1], x[2]>>) :
            x \in {y \in ClientIds(collectionName) \X ClientIds(collectionName) :
                     y[1] # y[2]}}

ClientCall(op, collectionName, input, error) ==
  [op |-> op, collectionName |-> collectionName, input |-> input,
   error |-> error, before |-> [store |-> store, uuid |-> uuid]]

\* await repo[collectionName].post(input, session, userId): the first call
\* on the repository, or the one that follows it.
Post(collectionName, input) ==
  /\ schemaSet \in ClientSchemaSets
  /\ \/ phase = "idle"
     \/ phase = "served" /\ Len(client) = 1
  /\ LET after == post([store |-> store, uuid |-> uuid], SchemaSets[schemaSet],
                       collectionName, input)
     IN /\ store' = after.store
        /\ uuid' = after.uuid
        /\ client' = Append(client,
                            ClientCall("post", collectionName, input, after.error))
  /\ phase' = "served"
  /\ UNCHANGED <<schemaSet, analysed, initial, plan, steps, pc, inflight, result,
                 calls>>

\* await repo[collectionName].put(input, session, userId)
Put(collectionName, input) ==
  /\ schemaSet \in ClientSchemaSets
  /\ phase = "idle"
  /\ LET after == put([store |-> store, uuid |-> uuid], SchemaSets[schemaSet],
                      analysed[collectionName].schemaKeys, collectionName, input)
     IN /\ store' = after.store
        /\ uuid' = after.uuid
        /\ client' = Append(client,
                            ClientCall("put", collectionName, input, after.error))
  /\ phase' = "served"
  /\ UNCHANGED <<schemaSet, analysed, initial, plan, steps, pc, inflight, result,
                 calls>>

\* await repo[collectionName].remove(idOrIds, session)
Remove(collectionName, idOrIds) ==
  /\ schemaSet \in ClientSchemaSets
  /\ phase = "idle"
  /\ LET after == remove([store |-> store, uuid |-> uuid], collectionName,
                         idOrIds, Session)
     IN /\ store' = after.store
        /\ uuid' = after.uuid
  /\ client' = Append(client, ClientCall("remove", collectionName, idOrIds, NoError))
  /\ phase' = "served"
  /\ UNCHANGED <<schemaSet, analysed, initial, plan, steps, pc, inflight, result,
                 calls>>

Next ==
  \/ \E c \in DOMAIN analysed : Analyse(c)
  \/ InsertMany
  \/ \E c \in DOMAIN store : \E id \in RootIds(c) : CallSafeRemove(c, id)
  \/ Discard
  \/ CallConfirm
  \/ ConfirmStep
  \/ ConfirmReturn
  \/ \E i \in DOMAIN inflight : PutGet(i)
  \/ \E i \in DOMAIN inflight : PutReplaceOne(i)
  \/ ConfirmStepFails
  \/ \E i \in DOMAIN inflight : PutFails(i)
  \/ \E c \in ClientCollections : \E input \in Inputs(c) : Post(c, input)
  \/ \E c \in ClientCollections : \E input \in Inputs(c) : Put(c, input)
  \/ \E c \in ClientCollections : \E idOrIds \in IdOrIds(c) : Remove(c, idOrIds)

Spec == Init /\ [][Next]_vars

\* initRepo alone: the analysis of the collections of the schema set, one
\* call of the analyzer for each.
NextInitRepo == \E c \in DOMAIN analysed : Analyse(c)

SpecInitRepo == Init /\ [][NextInitRepo]_vars

(***************************************************************************)
(* Properties of a cascading removal.                                      *)
(***************************************************************************)
\* The record safeRemove was called on, and the relations of its collection.
Root == <<plan.confirm.collectionName, plan.confirm.id>>
RootRelations == Repos[schemaSet][plan.confirm.collectionName]
RootExists == Root \in Present(initial.store)

\* The records the cascade from the root reaches in the store it started on.
Reached == Reach(initial.store, Repos[schemaSet], {Root})

\* The records a finished run has deleted.
Removed == Present(initial.store) \ Present(store)

\* No put called by an update action is still running.
Settled ==
  \A i \in DOMAIN inflight : inflight[i].at \in {"fulfilled", "rejected", "failed"}

\* safeRemove has been called.
Called == phase \notin {"new", "idle", "served"}

\* safeRemove returned a plan.
PlanReturned ==
  phase \in {"planned", "discarded", "confirming", "confirmed", "failed"}

\* A surviving record holds the id of a removed one in the source field of a
\* relation of a cascading kind.
Dangling ==
  \E c \in DOMAIN store : \E i \in DOMAIN store[c] :
    \E k \in DOMAIN Repos[schemaSet][c] :
      LET relation == Repos[schemaSet][c][k]
          held == ValueOf(store[c][i], relation.sourceCollectionFieldKey)
      IN /\ relation.dependencyKind \in CascadingKinds
         /\ \E x \in Range(held.v) :
              <<relation.targetCollectionName, x>> \in Removed

\* C1: Referential integrity.  From a store whose references are all
\* consistent, once safeRemove and confirm() have completed and every write
\* has settled, no surviving record holds the id of a removed record in a
\* field of a primary-to-secondary or secondary-to-primary relation.
ReferentialIntegrity ==
  (/\ phase = "confirmed"
   /\ Settled
   /\ Consistent(initial.store, Repos[schemaSet]))
  => ~Dangling

\* C2: Planning is read-only.  Until confirm() is called, every store call
\* safeRemove and its recursive planning calls issued is a read, and the
\* collections and the id registry are what they were before the call: a
\* discarded plan leaves them unchanged.
PlanningIsReadOnly ==
  phase \in {"planned", "rejected", "diverged", "discarded"} =>
    /\ \A call \in calls : call.op = "get"
    /\ store = initial.store
    /\ uuid = initial.uuid

\* A plan with records staged for removal and for update was discarded.
DiscardedPlan ==
  /\ phase = "discarded"
  /\ plan.stagedForRemove.defined
  /\ plan.stagedForUpdate.defined

\* C3: Over primary-to-secondary relations, the plan stages exactly the
\* records transitively reachable from the root through the reciprocal
\* fields, and confirm() deletes exactly those and the root: every other
\* record of every collection stays in the store.
\* (The first conjunct is stated of the state safeRemove returns the plan
\* in: no later step writes the plan or the store it was computed from.)
StagesExactlyTheReached ==
  /\ phase = "planned" => Range(plan.stagedForRemove.list) = Reached \ {Root}
  /\ phase = "confirmed" =>
       Present(store)
         = Present(initial.store) \ (Range(plan.stagedForRemove.list) \cup {Root})

\* A confirmed cascade over three records, one of them of a collection no
\* relation of the root's collection targets.
DeepCascadeConfirmed ==
  /\ phase = "confirmed"
  /\ Cardinality(Reached) = 3
  /\ \E x \in Reached \ {Root} :
       \A k \in DOMAIN RootRelations :
         x[1] # RootRelations[k].targetCollectionName

\* C4: The stagedForRemove list of a plan never holds the same
\* [collection, id] pair twice, even when two dependency paths from the
\* root reach the same record.
StagedForRemoveHasNoDuplicates ==
  PlanReturned => NoDuplicates(plan.stagedForRemove.list)

\* C5: The result of confirm() reports every [collection, id] pair at most
\* once: no pair twice in `removed`, none twice in `updated`, and none of
\* `removed` in `updated`.
ReportsEachPairOnce ==
  phase = "confirmed" =>
    /\ NoDuplicates(result.removed)
    /\ NoDuplicates(result.updated.list)
    /\ Range(result.removed) \cap Range(result.updated.list) = {}

\* A confirmed run whose child plans queued an update of the root, which is
\* removed, and an update of a record that survives.
UpdateOfRemovedReported ==
  /\ phase = "confirmed"
  /\ result.updated.defined
  /\ \E i \in DOMAIN plan.confirm.confirmQueue :
       \E j \in DOMAIN plan.confirm.confirmQueue[i].updateQueue :
         plan.confirm.confirmQueue[i].updateQueue[j].feedback = Root

\* confirm() is about to issue the delete of the root record: the last two
\* of its store calls are the root's deleteOne and __uuid.deleteOne.
RootDeleteIsNext == phase = "confirming" /\ pc = Len(steps) - 2

\* The deletes of the records removed through child plans are done by the
\* time the root's is issued.
LeavesCommitFirst ==
  RootDeleteIsNext =>
    \A x \in Range(plan.stagedForRemove.list) :
      x \notin Present(store) /\ x[2] \notin Range(uuid)

\* The root is the last entry of `removed`.
RootIsReportedLast ==
  phase = "confirmed" => result.removed[Len(result.removed)] = Root

\* C6: Inside confirm(), the delete of every record removed through a child
\* plan has completed before the delete of the root record is issued, and
\* the root is the last entry of the returned `removed` list.
LeavesBeforeRoot == LeavesCommitFirst /\ RootIsReportedLast

\* C7: Every queued reference-clearing update has run to completion before
\* the delete of the root record is issued: no write of an update action is
\* in flight then, nor when confirm() resolves.
UpdatesCompleteBeforeRootDelete ==
  (RootDeleteIsNext \/ phase = "confirmed") => Settled

\* C8: When the root record does not exist, safeRemove fails with an error
\* before anything is staged: no plan comes back, the only store call made
\* is the read of the root, and the store and the registry are unchanged.
MissingRootFailsBeforeStaging ==
  (Called /\ ~RootExists) =>
    /\ phase = "rejected"
    /\ plan.error = "Missing source record"
    /\ ~plan.stagedForRemove.defined
    /\ ~plan.stagedForUpdate.defined
    /\ plan.confirm.confirmQueue = <<>> /\ plan.confirm.updateQueue = <<>>
    /\ calls = {GetCall(Root[1], "id", Str(Root[2]), Session)}
    /\ store = initial.store
    /\ uuid = initial.uuid

\* safeRemove was called with an id no document has, on a collection with
\* a primary-to-secondary relation whose target holds documents.
MissingRootRejected ==
  /\ phase = "rejected"
  /\ ~RootExists
  /\ \E k \in DOMAIN RootRelations :
       /\ RootRelations[k].dependencyKind = "primary-to-secondary"
       /\ store[RootRelations[k].targetCollectionName] # <<>>

\* The combinations of dependency kind and cardinality safeRemove has no
\* cascade logic for.
Uncascadable(relation) ==
  \/ /\ relation.dependencyKind = "primary-to-secondary"
     /\ relation.cardinalityType \in {"one-to-many", "many-to-many"}
  \/ /\ relation.dependencyKind = "secondary-to-primary"
     /\ relation.cardinalityType \in {"many-to-one", "many-to-many"}

\* C9: Planning never silently ignores a relation it cannot cascade: when a
\* relation of the root collection has a combination of dependency kind and
\* cardinality without cascade logic, safeRemove fails instead of returning
\* a plan.
NeverSilentlyIgnoresARelation ==
  (/\ Called
   /\ RootExists
   /\ \E k \in DOMAIN RootRelations : Uncascadable(RootRelations[k]))
  => ~PlanReturned

\* The dependency kinds safeRemove has no case for.
MetadataKinds ==
  {"primary-to-primary", "primary-unilateral", "secondary-unilateral"}

\* safeRemove was called on an existing record of a collection with a
\* relation of a kind it has no case for.
MetadataRelationCase ==
  /\ Called
  /\ RootExists
  /\ \E k \in DOMAIN RootRelations :
       RootRelations[k].dependencyKind \in MetadataKinds

\* C10, as stated: relations of kind primary-to-primary, primary-unilateral
\* and secondary-unilateral are skipped: safeRemove still returns a plan,
\* to which the relation contributes nothing.
MetadataRelationsAreSkipped ==
  MetadataRelationCase =>
    /\ PlanReturned
    /\ ~plan.stagedForRemove.defined
    /\ ~plan.stagedForUpdate.defined

\* C10, amended: a relation of kind primary-to-primary, primary-unilateral
\* or secondary-unilateral is not cascaded and not skipped: safeRemove on an
\* existing record of such a collection returns no plan and changes nothing,
\* and when the relation is the first of the list it fails with "Not
\* supported relation dependencyKind" having read the root record only.
MetadataRelationsAreRejected ==
  MetadataRelationCase =>
    /\ ~PlanReturned
    /\ store = initial.store /\ uuid = initial.uuid
    /\ RootRelations[1].dependencyKind \in MetadataKinds =>
         /\ phase = "rejected"
         /\ plan.error = "Not supported relation dependencyKind"
         /\ calls = {GetCall(Root[1], "id", Str(Root[2]), Session)}

\* safeRemove on a record of a collection with such a relation was rejected.
MetadataRelationRejected ==
  /\ MetadataRelationCase
  /\ phase = "rejected"
  /\ plan.error = "Not supported relation dependencyKind"

\* C11: The session given to safeRemove is passed unchanged to every store
\* call made on behalf of the plan: the reads of planning, those of the
\* recursively planned children and of the secondary-to-primary targets
\* included, and the puts and deletes of confirm().
SessionIsThreaded ==
  \A call \in calls : call.session = Session

\* The record safeRemove was called on, as the store held it.
RootRecord == Head(get(initial.store, Root[1], "id", Str(Root[2])))

\* The records the root references through relation `relation` that hold
\* the root's id in the reciprocal field: equal to it, or in the array.
PointingBack(relation) ==
  {<<relation.targetCollectionName, x>> :
     x \in {y \in Range(ValueOf(RootRecord, relation.sourceCollectionFieldKey).v) :
              \E t \in Range(get(initial.store, relation.targetCollectionName,
                                 "id", Str(y))) :
                Matches(t, relation.targetCollectionFieldKey, Str(Root[2]))}}

\* The secondary-to-primary relations of the root's collection.
SecondaryToPrimary ==
  {k \in DOMAIN RootRelations :
     RootRelations[k].dependencyKind = "secondary-to-primary"}

\* C12: For a secondary-to-primary relation, the referenced target is staged
\* for update if and only if it exists and its reciprocal field points back
\* at the root (equals the root id, or contains it); a target whose
\* back-reference is stale or cleared is not staged, and no update action
\* is queued for it.
StagesExactlyBackReferences ==
  PlanReturned =>
    /\ Range(plan.stagedForUpdate.list) =
         UNION {PointingBack(RootRelations[k]) : k \in SecondaryToPrimary}
    /\ plan.stagedForUpdate.list =
         [i \in DOMAIN plan.confirm.updateQueue |->
            plan.confirm.updateQueue[i].feedback]

\* What holds of C12: over the relations whose cardinality the
\* secondary-to-primary switch has a case for, exactly the targets pointing
\* back are staged, and an update action is queued for each.
StagesBackReferencesWhereCascaded ==
  PlanReturned =>
    /\ Range(plan.stagedForUpdate.list) =
         UNION {PointingBack(RootRelations[k]) :
                  k \in {j \in SecondaryToPrimary :
                           ~Uncascadable(RootRelations[j])}}
    /\ plan.stagedForUpdate.list =
         [i \in DOMAIN plan.confirm.updateQueue |->
            plan.confirm.updateQueue[i].feedback]

\* safeRemove staged nothing.
NothingStaged == ~plan.stagedForRemove.defined /\ ~plan.stagedForUpdate.defined

\* C13: confirm() of a plan with nothing staged still deletes the root
\* record, and nothing else, and returns exactly { removed: [root] }; and
\* whenever no update survives the deduplication the result has no
\* `updated` key rather than an empty list.
ConfirmOfEmptyPlanRemovesRoot ==
  phase = "confirmed" =>
    /\ result.updated.defined <=> result.updated.list # <<>>
    /\ NothingStaged =>
         /\ result.removed = <<Root>>
         /\ ~result.updated.defined
         /\ Present(store) = Present(initial.store) \ {Root}
         /\ Range(uuid) = Range(initial.uuid) \ {Root[2]}

\* A plan with nothing staged was confirmed in a store holding other records.
EmptyPlanConfirmed ==
  /\ phase = "confirmed"
  /\ NothingStaged
  /\ Present(store) # {}

\* C14: In every plan safeRemove returns, stagedForRemove and
\* stagedForUpdate are each undefined or a non-empty list, never an empty
\* array.
StagedListsAreUndefinedOrNonEmpty ==
  PlanReturned =>
    /\ plan.stagedForRemove.defined <=> plan.stagedForRemove.list # <<>>
    /\ plan.stagedForUpdate.defined <=> plan.stagedForUpdate.list # <<>>

\* A plan came back with one list undefined and the other not.
PlanWithOneListUndefined ==
  /\ phase = "planned"
  /\ ~plan.stagedForRemove.defined
  /\ plan.stagedForUpdate.defined

\* C15: Every failure of a store operation issued on behalf of confirm()
\* propagates to the caller: confirm() does not resolve with a result when
\* the put of a reference-clearing update has failed.
FailuresPropagate ==
  phase = "confirmed" => \A i \in DOMAIN inflight : inflight[i].at # "rejected"

\* C16: Planning is cycle-safe: safeRemove returns, with a plan or an error,
\* for every store of every schema set the analyzer accepts, also when
\* records reference each other in a ring of primary-to-secondary
\* relations.  (A call that plans a record whose own planning is still on
\* the call stack repeats that planning without end; the model marks it
\* "diverged".)
PlanningTerminates == phase # "diverged"

\* The schemas initRepo was given.
Models == SchemaSets[schemaSet]

\* The non-id fields of a collection (an object schema) that are a string,
\* or an array of strings, branded as a foreign key of a declared object
\* collection.
ForeignKeyFieldsOf(models, c) ==
  {i \in (IF models[c].type = "object" THEN DOMAIN models[c].of ELSE {}) :
     /\ models[c].of[i].key # "id"
     /\ TargetOf(models[c].of[i].p) \in DOMAIN models
     /\ models[TargetOf(models[c].of[i].p)].type = "object"}

ForeignKeyFields(c) == ForeignKeyFieldsOf(Models, c)

\* The reciprocal keys the target of field i of collection c declares.
ReciprocalKeysOf(models, c, i) ==
  {k \in {c \o "Id", c \o "Ids"} :
     HasKey(models[TargetOf(models[c].of[i].p)].of, k)}

ReciprocalKeys(c, i) == ReciprocalKeysOf(Models, c, i)

\* The relations the analyzer returned for field i of collection c.
RelationsOf(c, i) ==
  {k \in DOMAIN analysed[c].relations :
     analysed[c].relations[k].sourceCollectionFieldKey = Models[c].of[i].key}

\* The dependency kind the optionality of the two endpoints stands for.
KindByOptionality(source, reciprocal) ==
  CASE source.optional = TRUE /\ reciprocal.optional = TRUE -> "primary-to-primary"
    [] source.optional = TRUE /\ reciprocal.optional # TRUE -> "primary-to-secondary"
    [] source.optional # TRUE /\ reciprocal.optional = TRUE -> "secondary-to-primary"
    [] OTHER -> "none"

\* The analyzer returned relations for collection c.
Analysed(c) == analysed[c].err = NoError

\* The dependency kind of every relation of a field with a reciprocal is
\* bilateral and follows the optionality of the two endpoints.
BilateralKindByOptionality ==
  \A c \in DOMAIN analysed : Analysed(c) =>
    \A i \in ForeignKeyFields(c) : ReciprocalKeys(c, i) # {} =>
      /\ RelationsOf(c, i) # {}
      /\ \A k \in RelationsOf(c, i) :
           LET relation == analysed[c].relations[k]
               target == Models[relation.targetCollectionName].of
           IN /\ "targetCollectionFieldKey" \in DOMAIN relation
              /\ relation.targetCollectionFieldKey \in ReciprocalKeys(c, i)
              /\ relation.dependencyKind =
                   KindByOptionality(Models[c].of[i].p,
                     PropertyOf(target, relation.targetCollectionFieldKey))

\* A scalar field with a scalar reciprocal is classified one-to-one.
ScalarPairIsOneToOne ==
  \A c \in DOMAIN analysed : Analysed(c) =>
    \A i \in ForeignKeyFields(c) : \A k \in RelationsOf(c, i) :
      LET relation == analysed[c].relations[k]
          target == Models[relation.targetCollectionName].of
      IN ("targetCollectionFieldKey" \in DOMAIN relation
          /\ Models[c].of[i].p.type = "string"
          /\ PropertyOf(target, relation.targetCollectionFieldKey).type = "string")
         => relation.cardinalityType = "one-to-one"

\* C17: For every foreign-key branded scalar or array field whose target
\* declares the reciprocal field, the analyzer emits a bilateral relation,
\* never a unilateral one, whose dependencyKind follows the optionality of
\* the two endpoints (optional/optional primary-to-primary,
\* optional/required primary-to-secondary, required/optional
\* secondary-to-primary); a scalar field with a scalar reciprocal is
\* classified one-to-one.
BilateralClassification == BilateralKindByOptionality /\ ScalarPairIsOneToOne

\* "one" for a field declared as a scalar, "many" for one declared as an array.
HalfOf(p) == IF p.type = "array" THEN "many" ELSE "one"

\* C18: The cardinalityType of a bilateral relation follows the declared
\* types of both endpoints: its first half is `one` for a scalar source
\* field and `many` for an array, its second half `one` for a reciprocal
\* field declared scalar and `many` for one declared as an array, whatever
\* the reciprocal field is named.
CardinalityByDeclaredTypes ==
  \A c \in DOMAIN analysed : Analysed(c) =>
    \A k \in DOMAIN analysed[c].relations :
      LET relation == analysed[c].relations[k]
      IN "targetCollectionFieldKey" \in DOMAIN relation =>
           relation.cardinalityType =
             HalfOf(PropertyOf(Flatten(SchemaUnion(Models[c])),
                               relation.sourceCollectionFieldKey))
             \o "-to-" \o
             HalfOf(PropertyOf(Models[relation.targetCollectionName].of,
                               relation.targetCollectionFieldKey))

\* The foreign-key fields of a schema set, as <<collection, field index>>.
AllForeignKeyFields(models) ==
  UNION {{<<c, i>> : i \in ForeignKeyFieldsOf(models, c)} : c \in DOMAIN models}

\* Field i of collection c and a reciprocal field of its target are both
\* required.
BothRequired(models, c, i) ==
  /\ models[c].of[i].p.optional # TRUE
  /\ \E key \in ReciprocalKeysOf(models, c, i) :
       PropertyOf(models[TargetOf(models[c].of[i].p)].of, key).optional # TRUE

\* Per schema set, the fields that are required on both sides.
RequiredPairs ==
  [name \in DOMAIN SchemaSets |->
     {f \in AllForeignKeyFields(SchemaSets[name]) :
        BothRequired(SchemaSets[name], f[1], f[2])}]

\* C19: in every schema set where a foreign-key field of a collection and
\* the reciprocal field of its target are both required, the analysis of
\* that collection throws secondaryToSecondaryRelationIsForbidden with the
\* source collection and the source field, and initRepo never resolves: no
\* repository is handed out and no document is ever stored.
SecondaryToSecondaryIsForbidden ==
  \A f \in RequiredPairs[schemaSet] : analysed[f[1]] # Pending =>
    /\ analysed[f[1]].err = Error("secondaryToSecondaryRelationIsForbidden",
                                  <<f[1], Models[f[1]].of[f[2]].key>>)
    /\ analysed[f[1]].relations = <<>>
    /\ ~Initialised
    /\ phase = "new"

\* The schema set of the test "secondary to secondary dependency relation is
\* forbidden" has been analysed and rejected.
SecondaryToSecondaryRejected ==
  /\ schemaSet = "modelA {modelBIds: array<modelB>} modelB {modelAId: string<modelA>}"
  /\ \E f \in RequiredPairs[schemaSet] : f[1] = "modelA"
  /\ analysed["modelA"].err =
       Error("secondaryToSecondaryRelationIsForbidden", <<"modelA", "modelBIds">>)

\* Field i of collection c is required, carries no ignore-relation
\* description, and its target declares neither `<c>Id` nor `<c>Ids`.
Orphan(models, c, i) ==
  /\ models[c].of[i].p.optional # TRUE
  /\ models[c].of[i].p.description # IGNORE_RELATION
  /\ ReciprocalKeysOf(models, c, i) = {}

\* Per schema set, the orphan fields.
Orphans ==
  [name \in DOMAIN SchemaSets |->
     {f \in AllForeignKeyFields(SchemaSets[name]) :
        Orphan(SchemaSets[name], f[1], f[2])}]

\* The throw of the post-pass for field i of collection c: the target
\* collection, the source collection and the source field.
OrphanError(c, i) ==
  Error("noUserDefinedRelation",
        <<TargetOf(Models[c].of[i].p), c, Models[c].of[i].key>>)

\* C20 as stated: in every schema set, a required foreign-key field without
\* the ignore-relation marker whose declared target has no reciprocal field
\* makes the analysis of its collection throw noUserDefinedRelation with the
\* target collection, the source collection and the source field.
OrphanRelationIsRejected ==
  \A f \in Orphans[schemaSet] : analysed[f[1]] # Pending =>
    analysed[f[1]].err = OrphanError(f[1], f[2])

\* C20 amended: the same, for a field whose target is another collection.
\* (A field that points at its own collection throws
\* forbiddenRecursiveRelation before the reciprocal field is looked for.)
OrphanRelationToAnotherCollectionIsRejected ==
  \A f \in Orphans[schemaSet] :
    (analysed[f[1]] # Pending /\ TargetOf(Models[f[1]].of[f[2]].p) # f[1]) =>
      /\ analysed[f[1]].err = OrphanError(f[1], f[2])
      /\ analysed[f[1]].relations = <<>>
      /\ ~Initialised

\* The schema set of the test "corresponding model has no user-defined
\* relation" has been analysed and rejected.
OrphanRelationRejected ==
  /\ schemaSet = "modelA {modelBIds: array<modelB>} modelB {}"
  /\ \E f \in Orphans[schemaSet] : f[1] = "modelA"
  /\ analysed["modelA"].err =
       Error("noUserDefinedRelation", <<"modelB", "modelA", "modelBIds">>)

\* Field i of collection c carries the ignore-relation description and its
\* target declares neither `<c>Id` nor `<c>Ids`.
IgnoredOrphan(models, c, i) ==
  /\ models[c].of[i].p.description = IGNORE_RELATION
  /\ ReciprocalKeysOf(models, c, i) = {}

\* Per schema set, the ignored fields without a reciprocal.
IgnoredOrphans ==
  [name \in DOMAIN SchemaSets |->
     {f \in AllForeignKeyFields(SchemaSets[name]) :
        IgnoredOrphan(SchemaSets[name], f[1], f[2])}]

\* The schema sets whose foreign-key fields are all ignored fields without
\* a reciprocal.
OnlyIgnoredOrphans ==
  {name \in DOMAIN SchemaSets :
     /\ IgnoredOrphans[name] # {}
     /\ IgnoredOrphans[name] = AllForeignKeyFields(SchemaSets[name])}

\* C21: a foreign-key field, scalar or array, that carries the
\* ignore-relation description and whose declared target has no reciprocal
\* field does not make the analysis of its collection throw; a schema set
\* whose foreign keys are all of that kind is analysed without a throw and
\* initRepo resolves.
IgnoredRelationIsNotEnforced ==
  /\ \A f \in IgnoredOrphans[schemaSet] :
       (/\ analysed[f[1]] # Pending
        /\ \A g \in AllForeignKeyFields(Models) :
             g[1] = f[1] => g \in IgnoredOrphans[schemaSet])
       => analysed[f[1]].err = NoError
  /\ schemaSet \in OnlyIgnoredOrphans =>
       \A c \in DOMAIN analysed : analysed[c] = Pending \/ Analysed(c)

\* The schema sets of the two "skip case" tests, an array and a scalar, have
\* been analysed.
IgnoredRelationsAnalysed ==
  /\ schemaSet \in {"modelA {modelBIds: array<modelB>!} modelB {}",
                    "modelA {modelBId: string<modelB>!} modelB {}"}
  /\ schemaSet \in OnlyIgnoredOrphans
  /\ Initialised

\* Every variant of the schema of collection c declares an id branded as a
\* foreign key of c itself.
IdIsOwnBrand(models, c) ==
  \A v \in DOMAIN SchemaUnion(models[c]) :
    /\ HasKey(SchemaUnion(models[c])[v], "id")
    /\ PropertyOf(SchemaUnion(models[c])[v], "id").brand = IdFor(c)

\* Per schema set, the collections with an id that is not so branded.
MisbrandedIds ==
  [name \in DOMAIN SchemaSets |->
     {c \in DOMAIN SchemaSets[name] : ~IdIsOwnBrand(SchemaSets[name], c)}]

\* C22: the analysis of a collection throws whenever the id of its schema,
\* or of a variant of it, is not branded as a foreign key of the collection
\* itself, in particular when it is branded as a foreign key of another
\* collection.
MisbrandedIdIsRejected ==
  \A c \in MisbrandedIds[schemaSet] :
    analysed[c] # Pending => analysed[c].err # NoError

\* Per schema set, the non-id fields branded as a foreign key of their own
\* collection.
SelfReferences ==
  [name \in DOMAIN SchemaSets |->
     {f \in AllForeignKeyFields(SchemaSets[name]) :
        TargetOf(SchemaSets[name][f[1]].of[f[2]].p) = f[1]}]

\* C23: the analysis of a collection throws whenever a non-id field of it
\* is branded as a foreign key of that same collection, whatever the
\* field's optionality, name or description.
RecursiveRelationIsRejected ==
  \A f \in SelfReferences[schemaSet] :
    analysed[f[1]] # Pending => analysed[f[1]].err # NoError

\* The same for the fields that carry no ignore-relation description.
UnmarkedRecursiveRelationIsRejected ==
  \A f \in SelfReferences[schemaSet] :
    (/\ analysed[f[1]] # Pending
     /\ Models[f[1]].of[f[2]].p.description # IGNORE_RELATION)
    => analysed[f[1]].err # NoError

\* Per schema set, the collections whose object schema, or a variant of
\* whose union schema, declares no id.
MissingIds ==
  [name \in DOMAIN SchemaSets |->
     {c \in DOMAIN SchemaSets[name] :
        \E v \in DOMAIN SchemaUnion(SchemaSets[name][c]) :
          ~HasKey(SchemaUnion(SchemaSets[name][c])[v], "id")}]

\* C24: the analysis of a collection whose object schema, or a variant of
\* whose union schema, declares no id throws noIdField with the collection,
\* and produces no relations.
MissingIdIsRejected ==
  \A c \in MissingIds[schemaSet] : analysed[c] # Pending =>
    /\ analysed[c].err = Error("noIdField", <<c>>)
    /\ analysed[c].relations = <<>>
    /\ ~Initialised

\* A union schema whose second variant declares no id has been analysed and
\* rejected.
UnionVariantWithoutIdRejected ==
  /\ "modelA" \in MissingIds[schemaSet]
  /\ Models["modelA"].type = "union"
  /\ analysed["modelA"].err = Error("noIdField", <<"modelA">>)

\* The collections a schema is branded as a foreign key of: none or one.
BrandTarget(schema) ==
  IF schema.brand # NoBrand /\ schema.brand[1] = FOREIGN_KEY_BRAND_TYPE
  THEN {schema.brand[2]} ELSE {}

\* The collections a field is branded as a foreign key of: by its own brand,
\* by its element's, or by those of the members of its union or of the
\* union its elements are of.
BrandTargets(p) ==
  CASE p.type = "array" /\ p.of[1].type = "union" ->
         UNION {BrandTarget(p.of[1].of[m]) : m \in DOMAIN p.of[1].of}
    [] p.type = "array" /\ p.of[1].type # "union" -> BrandTarget(p.of[1])
    [] p.type = "union" -> UNION {BrandTarget(p.of[m]) : m \in DOMAIN p.of}
    [] OTHER -> BrandTarget(p)

\* Per schema set, the non-id fields with a brand of a collection that is
\* not declared, as <<collection, field index>>.
UndeclaredReferences ==
  [name \in DOMAIN SchemaSets |->
     UNION {{<<c, i>> : i \in
               {i \in (IF SchemaSets[name][c].type = "object"
                       THEN DOMAIN SchemaSets[name][c].of ELSE {}) :
                  /\ SchemaSets[name][c].of[i].key # "id"
                  /\ BrandTargets(SchemaSets[name][c].of[i].p)
                       \ DOMAIN SchemaSets[name] # {}}} :
            c \in DOMAIN SchemaSets[name]}]

\* C25: the analysis of a collection throws whenever a non-id field of it
\* carries a foreign-key brand of a collection that is not declared, be the
\* brand on a scalar field, on the element of an array, on a member of a
\* union or on a member of the union an array holds; initRepo does not
\* resolve.
UndeclaredReferenceIsRejected ==
  \A f \in UndeclaredReferences[schemaSet] : analysed[f[1]] # Pending =>
    /\ analysed[f[1]].err # NoError
    /\ analysed[f[1]].relations = <<>>
    /\ ~Initialised

\* A brand of an undeclared collection on a member of the union an ignored
\* array holds has been analysed and rejected.
UndeclaredReferenceRejected ==
  /\ schemaSet = "modelA {ownerId: array of union<modelZ>!} modelB {}, no modelZ"
  /\ UndeclaredReferences[schemaSet] # {}
  /\ analysed["modelA"].err =
       Error("invalidBrandReferenceNoSuchModel", <<"modelA", "ownerId">>)

\* Field i of collection c is named after its target and typed accordingly:
\* `<target>Id` for a string, `<target>Ids` for an array.
Conventional(models, c, i) ==
  LET field == models[c].of[i]
  IN \/ field.p.type = "string" /\ field.key = TargetOf(field.p) \o "Id"
     \/ field.p.type = "array" /\ field.key = TargetOf(field.p) \o "Ids"

\* Per schema set, the pairs <<f, g>> of conventional fields of two
\* collections, both with an id, that point at each other and are not both
\* required.
MirrorPairs ==
  [name \in DOMAIN SchemaSets |->
     LET models == SchemaSets[name]
         fields == {f \in AllForeignKeyFields(models) :
                      Conventional(models, f[1], f[2])}
     IN {pair \in fields \X fields :
           LET f == pair[1]
               g == pair[2]
           IN /\ f[1] # g[1]
              /\ {f[1], g[1]} \cap MissingIds[name] = {}
              /\ TargetOf(models[f[1]].of[f[2]].p) = g[1]
              /\ TargetOf(models[g[1]].of[g[2]].p) = f[1]
              /\ \/ models[f[1]].of[f[2]].p.optional = TRUE
                 \/ models[g[1]].of[g[2]].p.optional = TRUE}]

MirrorKind(dependencyKind) ==
  CASE dependencyKind = "primary-to-secondary" -> "secondary-to-primary"
    [] dependencyKind = "secondary-to-primary" -> "primary-to-secondary"
    [] OTHER -> dependencyKind

MirrorCardinality(cardinalityType) ==
  CASE cardinalityType = "one-to-many" -> "many-to-one"
    [] cardinalityType = "many-to-one" -> "one-to-many"
    [] OTHER -> cardinalityType

\* A bilateral relation seen from its target.
Mirror(relation) ==
  [dependencyKind |-> MirrorKind(relation.dependencyKind),
   cardinalityType |-> MirrorCardinality(relation.cardinalityType),
   sourceCollectionName |-> relation.targetCollectionName,
   sourceCollectionFieldKey |-> relation.targetCollectionFieldKey,
   targetCollectionName |-> relation.sourceCollectionName,
   targetCollectionFieldKey |-> relation.sourceCollectionFieldKey]

\* C26: when two collections each declare a conventionally named and typed
\* foreign-key field pointing at the other, not both required, the analyzer
\* derives one relation for each of the two fields, and each is the mirror
\* of the other: names and keys swapped, primary-to-secondary swapped with
\* secondary-to-primary, one-to-many swapped with many-to-one.  (Stated of
\* the states in which initRepo runs or has just returned: Analyse is the
\* only step that writes the relations.)
BilateralRelationsMirror ==
  \A pair \in (IF phase = "new" THEN MirrorPairs[schemaSet] ELSE {}) :
    LET f == pair[1]
        g == pair[2]
    IN analysed[f[1]] # Pending /\ analysed[g[1]] # Pending =>
         /\ Analysed(f[1]) /\ Analysed(g[1])
         /\ Cardinality(RelationsOf(f[1], f[2])) = 1
         /\ \A k \in RelationsOf(f[1], f[2]) :
              LET relation == analysed[f[1]].relations[k]
              IN /\ relation.sourceCollectionName = f[1]
                 /\ relation.targetCollectionName = g[1]
                 /\ "targetCollectionFieldKey" \in DOMAIN relation
                 /\ relation.targetCollectionFieldKey = Models[g[1]].of[g[2]].key
                 /\ \E m \in RelationsOf(g[1], g[2]) :
                      analysed[g[1]].relations[m] = Mirror(relation)

\* The schema set of the test "primary-to-secondary; cardinality:
\* one-to-many | many-to-one" has been analysed: modelA's relation is
\* many-to-one, modelB's is one-to-many.
MirroredRelationsAnalysed ==
  /\ schemaSet = "modelA {modelBIds: array<modelB>?} modelB {modelAId: string<modelA>}"
  /\ MirrorPairs[schemaSet] # {}
  /\ Initialised
  /\ analysed["modelA"].relations[1].cardinalityType = "many-to-one"
  /\ analysed["modelB"].relations[1].dependencyKind = "secondary-to-primary"

(***************************************************************************)
(* Direct calls on a repository: post, put and remove.                     *)
(***************************************************************************)
\* The store and the registry as the i-th call of the client left them.
After(i) ==
  IF i = Len(client) THEN [store |-> store, uuid |-> uuid]
  ELSE client[i + 1].before

\* The ids of the documents a store holds, in any collection.
IdsInUse(S) == {x[2] : x \in Present(S)}

\* C27: ids are unique across the whole repository: a post whose id is in
\* use by a stored record of any collection fails with idIsAlreadyTaken,
\* and a post that throws leaves the collections and the id registry as
\* they were.
PostOfIdInUseIsRejected ==
  \A i \in DOMAIN client :
    client[i].op = "post" =>
      /\ IdOf(client[i].input) \in IdsInUse(client[i].before.store)
           => client[i].error.kind = "idIsAlreadyTaken"
      /\ client[i].error # NoError => After(i) = client[i].before

\* The part of C27 the code keeps: a post that throws writes nothing.
FailedPostWritesNothing ==
  \A i \in DOMAIN client :
    (client[i].op = "post" /\ client[i].error # NoError)
      => After(i) = client[i].before

\* A post that satisfies the schema and names an id in use, and resolves:
\* the repository then holds two records with one id.
ValidPostOfIdInUseIsRejected ==
  \A i \in DOMAIN client :
    (/\ client[i].op = "post"
     /\ Parses(SchemaSets[schemaSet], client[i].collectionName, client[i].input)
     /\ IdOf(client[i].input) \in IdsInUse(client[i].before.store))
      => client[i].error # NoError

\* The i-th call of the client is a put on an id the collection does not hold.
PutOfMissingId(i) ==
  /\ client[i].op = "put"
  /\ get(client[i].before.store, client[i].collectionName, "id",
         Str(IdOf(client[i].input))) = <<>>

\* C28 as stated: a put on an id that the collection does not hold fails
\* with recordNotExists and leaves the collection unchanged.
PutOfMissingIdIsRecordNotExists ==
  \A i \in DOMAIN client :
    PutOfMissingId(i) =>
      /\ client[i].error.kind = "recordNotExists"
      /\ After(i) = client[i].before

\* C28, amended: a put on an id that the collection does not hold never
\* creates the record, it throws and leaves every collection and the id
\* registry unchanged; the throw is recordNotExists(collection, id) when the
\* input satisfies the schema, and the parse error when it does not.
PutNeverCreates ==
  \A i \in DOMAIN client :
    PutOfMissingId(i) =>
      /\ client[i].error =
           IF Parses(SchemaSets[schemaSet], client[i].collectionName,
                     client[i].input)
           THEN Error("recordNotExists",
                      <<client[i].collectionName, IdOf(client[i].input)>>)
           ELSE Error("either.left", <<>>)
      /\ After(i) = client[i].before

\* A put of a valid record on a missing id was made while the collection
\* held other records, and it threw recordNotExists.
PutOfMissingIdRejected ==
  \E i \in DOMAIN client :
    /\ PutOfMissingId(i)
    /\ client[i].error.kind = "recordNotExists"
    /\ client[i].before.store[client[i].collectionName] # <<>>

\* The ids the i-th call of the client, a remove, was given.
IdsGiven(i) == {IdsOf(client[i].input)[k] : k \in DOMAIN IdsOf(client[i].input)}

\* The documents of a collection whose id is not among `ids`.
WithoutIds(docs, ids) == SelectSeq(docs, LAMBDA doc : IdOf(doc) \notin ids)

\* The ids, among those given, of records the collection held.
IdsRemoved(i) ==
  IdsGiven(i) \cap
    {IdOf(client[i].before.store[client[i].collectionName][k]) :
       k \in DOMAIN client[i].before.store[client[i].collectionName]}

\* C29: remove(idOrIds) deletes exactly the records of the collection whose
\* ids are given, and exactly their entries of the id registry; every other
\* record, and every other registry entry, is as it was.
RemoveDeletesExactlyTheGivenRecords ==
  \A i \in DOMAIN client :
    client[i].op = "remove" =>
      /\ After(i).store =
           [client[i].before.store EXCEPT ![client[i].collectionName] =
              WithoutIds(@, IdsGiven(i))]
      /\ After(i).uuid =
           SelectSeq(client[i].before.uuid, LAMBDA id : id \notin IdsRemoved(i))

\* The part of C29 the code keeps: the records given are deleted, with their
\* registry entries, and every other record of the repository is as it was.
RemoveDeletesTheGivenRecords ==
  \A i \in DOMAIN client :
    client[i].op = "remove" =>
      /\ After(i).store =
           [client[i].before.store EXCEPT ![client[i].collectionName] =
              WithoutIds(@, IdsGiven(i))]
      /\ \A id \in IdsRemoved(i) : ~IdIsTaken(After(i).uuid, id)

\* A list of two ids was removed from a collection that held both.
TwoRecordsRemoved ==
  \E i \in DOMAIN client :
    /\ client[i].op = "remove"
    /\ client[i].input.t = "array"
    /\ Cardinality(IdsRemoved(i)) = 2

(***************************************************************************)
(* A store call that rejects while confirm() runs.                         *)
(***************************************************************************)
\* A store call made on behalf of confirm() has rejected: one confirm()
\* awaited, or one of a put it had called.
StoreCallFailed ==
  \/ phase = "failed"
  \/ \E i \in DOMAIN inflight : inflight[i].at = "failed"

\* What the calls confirm() was answered for deleted is deleted.
AppliedRemovalsStay ==
  \A k \in 1..pc :
    /\ steps[k].call.op = "deleteOne"
         => <<steps[k].call.collectionName, steps[k].call.value.v[1]>>
              \notin Present(store)
    /\ steps[k].call.op = "uuidDeleteOne"
         => ~IdIsTaken(uuid, steps[k].call.value.v[1])

\* The deletes sent to the store are those of the steps confirm() took: none
\* was sent after the one that rejected, and none again.
NothingRetried ==
  \A call \in calls :
    call.op \in {"deleteOne", "uuidDeleteOne"}
      => \E k \in 1..pc : steps[k].call = call

\* C30: when a store operation fails part-way through confirm(), what the
\* earlier steps deleted stays deleted, nothing is compensated or retried,
\* and the root record is not deleted by that confirm() call.
FailedConfirmKeepsTheRoot ==
  (PlanReturned /\ StoreCallFailed) =>
    /\ AppliedRemovalsStay
    /\ NothingRetried
    /\ Root \in Present(store)

\* The part of C30 the code keeps: no rollback, no compensation, no retry.
FailedConfirmIsNotRolledBack ==
  (PlanReturned /\ phase = "failed") =>
    /\ AppliedRemovalsStay
    /\ NothingRetried
    /\ Present(store) \subseteq Present(initial.store)

\* confirm() rejected after it had deleted a child of the root.
ConfirmFailedPartWay ==
  /\ phase = "failed"
  /\ Removed # {}
  /\ Root \in Present(store)

\* Once a put called by confirm() has failed in the store, the root is
\* kept: what the code breaks, since confirm() never learns of the failure.
RootKeptAfterFailedPut ==
  (PlanReturned /\ \E i \in DOMAIN inflight : inflight[i].at = "failed")
    => Root \in Present(store)

\* C32: a foreign-key field, scalar or array, that carries the
\* ignore-relation description and whose object-shaped target declares
\* neither `<source>Id` nor `<source>Ids` yields exactly one relation, a
\* unilateral one: primary-unilateral if the field is optional and
\* secondary-unilateral otherwise, `one` for a scalar and `many` for an array.
UnilateralClassification ==
  \A f \in IgnoredOrphans[schemaSet] : Analysed(f[1]) =>
    LET p == Models[f[1]].of[f[2]].p
    IN /\ Cardinality(RelationsOf(f[1], f[2])) = 1
       /\ \A k \in RelationsOf(f[1], f[2]) :
            analysed[f[1]].relations[k] =
              [dependencyKind |-> IF p.optional = TRUE THEN "primary-unilateral"
                                  ELSE "secondary-unilateral",
               cardinalityType |-> HalfOf(p),
               sourceCollectionName |-> f[1],
               sourceCollectionFieldKey |-> Models[f[1]].of[f[2]].key,
               targetCollectionName |-> TargetOf(p)]

\* The schema set with a required scalar and an optional array of that kind
\* has been analysed.
UnilateralRelationsAnalysed ==
  /\ schemaSet = "unilateral"
  /\ Initialised
  /\ Cardinality(IgnoredOrphans[schemaSet]) = 2

\* Relation k of collection c is bilateral.
Bilateral(c, k) == "targetCollectionFieldKey" \in DOMAIN analysed[c].relations[k]

\* The reciprocal field of a bilateral relation is a foreign key of the
\* relation's source collection.
ReciprocalIsForeignKey(relation) ==
  TargetOf(PropertyOf(Models[relation.targetCollectionName].of,
                      relation.targetCollectionFieldKey))
    = relation.sourceCollectionName

\* The target collection lists a bilateral relation from the reciprocal
\* field back to the source field.
HasMatchingRelation(relation) ==
  \E m \in DOMAIN analysed[relation.targetCollectionName].relations :
    LET back == analysed[relation.targetCollectionName].relations[m]
    IN /\ back.sourceCollectionFieldKey = relation.targetCollectionFieldKey
       /\ back.targetCollectionName = relation.sourceCollectionName
       /\ "targetCollectionFieldKey" \in DOMAIN back
       /\ back.targetCollectionFieldKey = relation.sourceCollectionFieldKey

\* C37: in a schema set analysed without a throw, the reciprocal field of
\* every bilateral relation carries a foreign-key brand of the relation's
\* source collection, and the target collection lists the matching
\* bilateral relation.
BilateralRelationsAreMatched ==
  Initialised =>
    \A c \in DOMAIN analysed : \A k \in DOMAIN analysed[c].relations :
      Bilateral(c, k) =>
        /\ ReciprocalIsForeignKey(analysed[c].relations[k])
        /\ HasMatchingRelation(analysed[c].relations[k])

\* No entry of the relation list of collection c occurs twice.
RelationsListedOnce(c) ==
  \A k, m \in DOMAIN analysed[c].relations :
    analysed[c].relations[k] = analysed[c].relations[m] => k = m

\* The plan of a removal from a union collection queues the confirmation of
\* each dependent record once.
DependentsQueuedOnce ==
  (PlanReturned /\ Models[Root[1]].type = "union") =>
    \A i, j \in DOMAIN plan.confirm.confirmQueue :
      (/\ plan.confirm.confirmQueue[i].collectionName
            = plan.confirm.confirmQueue[j].collectionName
       /\ plan.confirm.confirmQueue[i].id = plan.confirm.confirmQueue[j].id)
        => i = j

\* C31: a union collection is an overlay of its variants: a foreign-key
\* field declared identically in several variants yields a single entry of
\* the collection's relation list, and planning a removal processes that
\* relation once.
UnionIsAnOverlay ==
  /\ \A c \in DOMAIN analysed : Analysed(c) => RelationsListedOnce(c)
  /\ DependentsQueuedOnce

\* The plan's confirm and those of the child plans it queued, at any depth.
RECURSIVE Closures(_)
Closures(confirm) ==
  {confirm} \cup
  UNION {Closures(confirm.confirmQueue[i]) : i \in DOMAIN confirm.confirmQueue}

\* The record `written` is `target` with the reference to `id` taken out of
\* the field `key` and nothing else changed: a scalar holding the id is
\* unset, an array loses the occurrences of the id and keeps the rest in
\* order.
ReferenceCleared(target, written, key, id) ==
  /\ DOMAIN written = DOMAIN target
  /\ \A other \in DOMAIN target \ {key} : written[other] = target[other]
  /\ key \in DOMAIN target
  /\ \/ target[key] = Str(id) /\ written[key] = Undefined
     \/ /\ target[key].t = "array"
        /\ id \in Range(target[key].v)
        /\ written[key].t = "array"
        /\ written[key].v = SelectSeq(target[key].v, LAMBDA x : x # id)

\* The record every queued update hands to put is the record of its target
\* with the reference to the record being removed cleared.  (Stated of the
\* state in which safeRemove has returned the plan: no later step writes
\* the plan.)
QueuedUpdatesClearTheReference ==
  phase = "planned" =>
    \A closure \in Closures(plan.confirm) :
      \A i \in DOMAIN closure.updateQueue :
        LET update == closure.updateQueue[i]
            found == get(initial.store, update.collectionName, "id",
                         Str(IdOf(update.record)))
        IN /\ found # <<>>
           /\ update.feedback = <<update.collectionName, IdOf(update.record)>>
           /\ \E k \in DOMAIN Repos[schemaSet][closure.collectionName] :
                LET relation == Repos[schemaSet][closure.collectionName][k]
                IN /\ relation.dependencyKind = "secondary-to-primary"
                   /\ relation.targetCollectionName = update.collectionName
                   /\ ReferenceCleared(found[1], update.record,
                        relation.targetCollectionFieldKey, closure.id)

\* While confirm() runs and after it, the target of an update is in the
\* store unless confirm() also removes it.
UpdatedTargetsStay ==
  \A k \in DOMAIN steps :
    steps[k].call.op = "put" =>
      \/ <<steps[k].call.collectionName, steps[k].call.value.v[1]>>
            \in Present(store)
      \/ \E j \in DOMAIN steps :
            /\ steps[j].call.op = "deleteOne"
            /\ steps[j].call.collectionName = steps[k].call.collectionName
            /\ steps[j].call.value = steps[k].call.value

PlanPredictsConfirmation ==
  phase = "confirmed" =>
    /\ Range(result.updated.list) \subseteq Range(plan.stagedForUpdate.list)
    /\ Range(result.removed) \ {Root} \subseteq Range(plan.stagedForRemove.list)

\* The pairs confirm() collects before it deduplicates them: the record of
\* every confirmation it runs, and the feedback of every update it runs.
CollectedRemoved ==
  {<<closure.collectionName, closure.id>> : closure \in Closures(plan.confirm)}
CollectedUpdated ==
  UNION {{closure.updateQueue[i].feedback : i \in DOMAIN closure.updateQueue} :
           closure \in Closures(plan.confirm)}

\* No two distinct pairs are collapsed into one report of `removed`.
RemovedPairsAreKept ==
  phase = "confirmed" => Range(result.removed) = CollectedRemoved

\* A pair leaves `updated` only when that very pair is in `removed`.
UpdatedPairsAreKept ==
  phase = "confirmed" =>
    Range(result.updated.list) = CollectedUpdated \ CollectedRemoved

\* C36: the deduplication of confirm() merges two reports only when both
\* their collection name and their id are equal: every collected pair is
\* reported, but for an updated pair that is itself removed.
DedupMergesOnlyEqualPairs == RemovedPairsAreKept /\ UpdatedPairsAreKept

(***************************************************************************)
(* A plan that waits: between safeRemove and confirm() another caller of   *)
(* the repository posts, puts or removes a record.                         *)
(***************************************************************************)
\* The schema sets under which a plan is confirmed after another call.
StaleSchemaSets == {"listed"}

InitStale == Init /\ schemaSet \in StaleSchemaSets

\* await repo[collectionName].post(input, session, userId), while the plan
\* waits for its confirm().
PostAfterPlanning(collectionName, input) ==
  /\ phase = "planned"
  /\ client = <<>>
  /\ Cardinality(Present(initial.store)) <= MaxClientRecords
  /\ LET after == post([store |-> store, uuid |-> uuid], SchemaSets[schemaSet],
                       collectionName, input)
     IN /\ store' = after.store
        /\ uuid' = after.uuid
        /\ client' = <<ClientCall("post", collectionName, input, after.error)>>
  /\ UNCHANGED <<schemaSet, analysed, initial, phase, plan, steps, pc, inflight,
                 result, calls>>

\* await repo[collectionName].put(input, session, userId), while the plan
\* waits for its confirm().
PutAfterPlanning(collectionName, input) ==
  /\ phase = "planned"
  /\ client = <<>>
  /\ Cardinality(Present(initial.store)) <= MaxClientRecords
  /\ LET after == put([store |-> store, uuid |-> uuid], SchemaSets[schemaSet],
                      analysed[collectionName].schemaKeys, collectionName, input)
     IN /\ store' = after.store
        /\ uuid' = after.uuid
        /\ client' = <<ClientCall("put", collectionName, input, after.error)>>
  /\ UNCHANGED <<schemaSet, analysed, initial, phase, plan, steps, pc, inflight,
                 result, calls>>

\* await repo[collectionName].remove(id, session), while the plan waits for
\* its confirm().
RemoveAfterPlanning(collectionName, id) ==
  /\ phase = "planned"
  /\ client = <<>>
  /\ Cardinality(Present(initial.store)) <= MaxClientRecords
  /\ LET after == remove([store |-> store, uuid |-> uuid], collectionName,
                         Str(id), Session)
     IN /\ store' = after.store
        /\ uuid' = after.uuid
  /\ client' = <<ClientCall("remove", collectionName, Str(id), NoError)>>
  /\ UNCHANGED <<schemaSet, analysed, initial, phase, plan, steps, pc, inflight,
                 result, calls>>

NextStale ==
  \/ \E c \in DOMAIN analysed : Analyse(c)
  \/ InsertMany
  \/ \E c \in DOMAIN store : \E id \in RootIds(c) : CallSafeRemove(c, id)
  \/ \E c \in DOMAIN store : \E input \in Inputs(c) : PostAfterPlanning(c, input)
  \/ \E c \in DOMAIN store : \E input \in Inputs(c) : PutAfterPlanning(c, input)
  \/ \E c \in DOMAIN store : \E id \in ClientIds(c) : RemoveAfterPlanning(c, id)
  \/ CallConfirm
  \/ ConfirmStep
  \/ ConfirmReturn
  \/ \E i \in DOMAIN inflight : PutGet(i)
  \/ \E i \in DOMAIN inflight : PutReplaceOne(i)

SpecStale == InitStale /\ [][NextStale]_vars

\* The store confirm() starts on: the one the plan was computed from, after
\* the call made in between.
StoreAtConfirm ==
  IF client = <<>> THEN initial.store
  ELSE LET call == client[1]
       IN CASE call.op = "post" ->
                 post(call.before, SchemaSets[schemaSet], call.collectionName,
                      call.input).store
            [] call.op = "put" ->
                 put(call.before, SchemaSets[schemaSet],
                     analysed[call.collectionName].schemaKeys,
                     call.collectionName, call.input).store
            [] OTHER ->
                 remove(call.before, call.collectionName, call.input,
                        Session).store

\* The records the running puts of the plan's updates have written over the
\* record `x`.
WrittenOver(x) ==
  {inflight[i].step.record :
     i \in {j \in DOMAIN inflight :
              /\ inflight[j].at = "fulfilled"
              /\ inflight[j].step.call.collectionName = x[1]
              /\ inflight[j].step.call.value = Str(x[2])}}

\* confirm() removes the records the plan names and no other: a record that
\* came to depend on the root after planning stays.
OnlyPlannedRemovals ==
  phase = "confirmed" =>
    Present(store) = Present(StoreAtConfirm) \ CollectedRemoved

\* Once its put has written, a target holds the record the plan was given
\* at planning time (the snapshot without the reference), whatever was
\* written to it in between; a record no put has written is as confirm()
\* found it.
SnapshotsAreWritten ==
  phase = "confirmed" /\ Settled =>
    \A x \in Present(store) :
      LET held == Head(get(store, x[1], "id", Str(x[2])))
      IN IF WrittenOver(x) # {} THEN held \in WrittenOver(x)
         ELSE held = Head(get(StoreAtConfirm, x[1], "id", Str(x[2])))

\* A put of the plan is refused only for a target that is gone when it
\* looks for it, or for a record the schema refuses.
UpdatesAreApplied ==
  \A i \in DOMAIN inflight :
    inflight[i].at = "rejected" =>
      LET call == inflight[i].step.call
          x == <<call.collectionName, call.value.v[1]>>
      IN \/ x \notin Present(StoreAtConfirm)
         \/ x \in CollectedRemoved
         \/ ~Parses(SchemaSets[schemaSet], call.collectionName,
                    inflight[i].step.record)

LateDependentStays ==
  /\ phase = "confirmed"
  /\ client # <<>>
  /\ client[1].op = "post"
  /\ client[1].error = NoError
  /\ <<client[1].collectionName, IdOf(client[1].input)>> \in Present(store)
  /\ Root \notin Present(store)
  /\ \E key \in DOMAIN client[1].input :
       key # "id" /\ Matches(client[1].input, key, Str(Root[2]))

(***************************************************************************)
(* A plan confirmed twice: confirm() is called again on the plan whose     *)
(* confirm() has resolved, and nothing else is called in between.          *)
(***************************************************************************)
\* The schema sets under which a plan is confirmed twice.
RepeatSchemaSets == {"listed", "optionalPair", "shared"}

InitAgain == Init /\ schemaSet \in RepeatSchemaSets

\* The caller invokes plan.confirm() a second time: the same closure runs
\* over the same queues.  What the first call resolved with, and the store
\* it is called on, are kept for comparison.
CallConfirmAgain ==
  /\ phase = "confirmed"
  /\ client = <<>>
  /\ client' = <<ClientCall("confirm", plan.confirm.collectionName, result,
                            NoError)>>
  /\ phase' = "confirming"
  /\ steps' = ConfirmSteps(plan.confirm)
  /\ pc' = 0
  /\ result' = NoResult
  /\ UNCHANGED <<schemaSet, analysed, store, uuid, initial, plan, inflight, calls>>

NextAgain ==
  \/ \E c \in DOMAIN analysed : Analyse(c)
  \/ InsertMany
  \/ \E c \in DOMAIN store : \E id \in RootIds(c) : CallSafeRemove(c, id)
  \/ CallConfirm
  \/ CallConfirmAgain
  \/ ConfirmStep
  \/ ConfirmReturn
  \/ \E i \in DOMAIN inflight : PutGet(i)
  \/ \E i \in DOMAIN inflight : PutReplaceOne(i)

SpecAgain == InitAgain /\ [][NextAgain]_vars

\* The second confirm() has resolved.
ConfirmedAgain == phase = "confirmed" /\ client # <<>>

\* The second confirm() resolves with the result of the first.
SecondResultIsTheFirst == ConfirmedAgain => result = client[1].input

\* C39: confirm() is repeatable: called again with no other call in
\* between, it resolves with a result equal to the first call's and leaves
\* the contents of the store as they were when it was called.
ConfirmIsRepeatable ==
  ConfirmedAgain =>
    /\ result = client[1].input
    /\ store = client[1].before.store
    /\ uuid = client[1].before.uuid

(***************************************************************************)
(* Concurrent posts: post runs from one await to the next, and the calls   *)
(* of several posts interleave (repo.ts 80-101).                           *)
(***************************************************************************)
\* The repository posts are raced on, and how many run at once.
PostSchemaSets == {"oneMany"}
MaxPosts == 2

InitPosts == Init /\ schemaSet \in PostSchemaSets

\* The ids the racing posts are given: that of a stored document, or one
\* that none has.
PostIds ==
  {x[2] : x \in Present(initial.store)}
    \cup {RecordId(c, Len(initial.store[c]) + 1) : c \in DOMAIN initial.store}

\* The inputs of the racing posts: the required properties set, or nothing
\* but the id.
PostInputs(collectionName) ==
  {Template(SchemaSets[schemaSet][collectionName].of, id) : id \in PostIds}
    \cup {Bare(id) : id \in PostIds}

\* repo[collectionName].post(input, session, userId) is called and runs to
\* its first await: tox.parse throws on an invalid input, else the lookup
\* in the registry is sent.
PostCalled(collectionName, input) ==
  /\ phase = "idle"
  /\ Cardinality(Present(initial.store)) <= MaxClientRecords
  /\ Len(inflight) < MaxPosts
  /\ inflight' = Append(inflight,
       [step |-> [call |-> StoreCall("post", collectionName, "id",
                                     Str(IdOf(input)), Session),
                  record |-> input],
        at |-> IF Parses(SchemaSets[schemaSet], collectionName, input)
               THEN "uuidFindOne" ELSE "rejected"])
  /\ UNCHANGED <<schemaSet, analysed, store, uuid, initial, phase, plan, steps,
                 pc, result, calls, client>>

\* const uuid = await __uuid.findOne({ id: input.id }); throws when found
PostUuidFindOne(i) ==
  /\ inflight[i].at = "uuidFindOne"
  /\ inflight' = [inflight EXCEPT ![i].at =
       IF IdIsTaken(uuid, inflight[i].step.call.value.v[1])
       THEN "rejected" ELSE "find"]
  /\ UNCHANGED <<schemaSet, analysed, store, uuid, initial, phase, plan, steps,
                 pc, result, calls, client>>

\* const [record] = await get({ id: input.id }, session); throws when found
PostFind(i) ==
  /\ inflight[i].at = "find"
  /\ inflight' = [inflight EXCEPT ![i].at =
       IF get(store, inflight[i].step.call.collectionName, "id",
              inflight[i].step.call.value) # <<>>
       THEN "rejected" ELSE "upsert"]
  /\ UNCHANGED <<schemaSet, analysed, store, uuid, initial, phase, plan, steps,
                 pc, result, calls, client>>

\* await collection.replaceOne({ id: input.id }, stagedRecord, { upsert: true })
PostUpsert(i) ==
  /\ inflight[i].at = "upsert"
  /\ store' = [store EXCEPT ![inflight[i].step.call.collectionName] =
                 Upsert(@, inflight[i].step.call.value.v[1],
                        inflight[i].step.record)]
  /\ inflight' = [inflight EXCEPT ![i].at = "uuidInsertOne"]
  /\ UNCHANGED <<schemaSet, analysed, uuid, initial, phase, plan, steps, pc,
                 result, calls, client>>

\* await __uuid.insertOne({ id: input.id }); the read of the stored record
\* that follows changes nothing, and post resolves.
PostUuidInsertOne(i) ==
  /\ inflight[i].at = "uuidInsertOne"
  /\ uuid' = Append(uuid, inflight[i].step.call.value.v[1])
  /\ inflight' = [inflight EXCEPT ![i].at = "fulfilled"]
  /\ UNCHANGED <<schemaSet, analysed, store, initial, phase, plan, steps, pc,
                 result, calls, client>>

\* await repo[collectionName].remove(id, session), once the posts have
\* settled.
RemoveAfterPosts(collectionName, id) ==
  /\ phase = "idle"
  /\ inflight # <<>>
  /\ Settled
  /\ LET after == remove([store |-> store, uuid |-> uuid], collectionName,
                         Str(id), Session)
     IN /\ store' = after.store
        /\ uuid' = after.uuid
  /\ client' = Append(client,
                      ClientCall("remove", collectionName, Str(id), NoError))
  /\ phase' = "served"
  /\ UNCHANGED <<schemaSet, analysed, initial, plan, steps, pc, inflight, result,
                 calls>>

NextPosts ==
  \/ \E c \in DOMAIN analysed : Analyse(c)
  \/ InsertMany
  \/ \E c \in DOMAIN store : \E input \in PostInputs(c) : PostCalled(c, input)
  \/ \E i \in DOMAIN inflight : PostUuidFindOne(i)
  \/ \E i \in DOMAIN inflight : PostFind(i)
  \/ \E i \in DOMAIN inflight : PostUpsert(i)
  \/ \E i \in DOMAIN inflight : PostUuidInsertOne(i)
  \/ \E c \in DOMAIN store : \E id \in PostIds : RemoveAfterPosts(c, id)

SpecPosts == InitPosts /\ [][NextPosts]_vars

\* The posts of `id` that resolved.
Succeeded(id) ==
  {i \in DOMAIN inflight :
     inflight[i].at = "fulfilled" /\ inflight[i].step.call.value = Str(id)}

\* The documents with that id, over all collections.
DocumentsWith(id) ==
  UNION {{<<c, i>> : i \in {j \in DOMAIN store[c] : IdOf(store[c][j]) = id}} :
           c \in DOMAIN store}

\* The entries of the registry for that id.
EntriesFor(id) == {k \in DOMAIN uuid : uuid[k] = id}

\* C38: post is safe under interleaving: of the posts of one id that run
\* concurrently, on the same or on different collections, at most one
\* succeeds, at most one record with the id exists, the registry holds at
\* most one entry for it, and when no record has the id any more after a
\* remove, the id is no longer taken.
PostIsSafeUnderInterleaving ==
  \A id \in PostIds :
    /\ Cardinality(Succeeded(id)) <= 1
    /\ Cardinality(DocumentsWith(id)) <= 1
    /\ Cardinality(EntriesFor(id)) <= 1
    /\ phase = "served" /\ DocumentsWith(id) = {} => ~IdIsTaken(uuid, id)

====
